---- MODULE Spec2Model ----
(***************************************************************************)
(* Authentication and tenant-isolation core of MyPlanner_BackEnd.          *)
(*                                                                         *)
(* SpecAuth: principals, the refresh-token ledger (RefreshTokenRepository),*)
(* login (AuthService.authenticate_user) and the /auth/refresh handler,    *)
(* whose steps run interleaved on two request slots, each with its own     *)
(* storage session.                                                        *)
(* SpecTasks: the task endpoints (TaskService / TaskRepository), their     *)
(* Sessions, the pooled connections and the listener that binds role and   *)
(* subject before a statement.                                             *)
(* SpecVerify: get_current_user over the space of bearer tokens.           *)
(* SpecCodec: create_access_token, create_refresh_token and verify_token   *)
(* applied to each other's results while the clock advances.               *)
(* SpecRegister: AuthService.register_user, step by step, on two request   *)
(* slots. SpecStartup: the import of config.py and security.py for every   *)
(* kind of signing secret, followed by the codec operations.               *)
(* SpecSweep: cleanup_expired_tokens on one Session beside one other       *)
(* ledger operation that runs statement by statement on another.           *)
(* SpecSession: protected routes called between login, refresh and the     *)
(* ledger operations. SpecOwners: login and refresh of two principals.     *)
(* SpecRegisterFaults: registration on a storage that may fail after the   *)
(* principal is stored.                                                    *)
(* The clock is `now` whole seconds plus `micro` fractions of a second;    *)
(* datetime.utcnow() reads both, a JWT keeps the whole seconds only.       *)
(***************************************************************************)
EXTENDS Integers, FiniteSets, Sequences, TLC

\* ---------------------------------------------------------------- bounds
MaxTime == 2
MaxRecords == 3
MaxTasks == 2
\* ACCESS_TOKEN_EXPIRE_MINUTES / REFRESH_TOKEN_EXPIRE_DAYS are read from the
\* environment (config.py:59,62); here they are expressed in clock ticks.
AccessTtl == 1
RefreshTtl == 1
\* Resolution of datetime below the second (microseconds in the code).
TicksPerSecond == 2

Subjects == {"alice", "bob"}
\* The principals that register and log in in SpecAuth; "nobody" and "bob"
\* stay unregistered there.
LedgerSubjects == {"alice"}
Unknown == "nobody"
Procs == {"r1", "r2"}

\* ---------------------------------------------------------------- config
JWT_ISSUER == "myplanner-api"
JWT_AUDIENCE == "myplanner-users"
SECRET_KEY == "secret-key"

\* Absent values (Python None), one per type so that values stay comparable.
NoSub == "<none>"
NoUserId == 0
NoToken ==
  [sub |-> NoSub, typ |-> "<none>", iat |-> -1, nbf |-> -1, exp |-> -1,
   iss |-> "", aud |-> "", sig |-> ""]

MinPasswordLen == 8
MinSecretLen == 32

\* ------------------------------------------------------------ passwords
\* A password is the sequence of its characters.
PwGood == <<"G", "o", "o", "d", "P", "a", "s", "s", "1", "!">>
PwShort == <<"s", "h", "o", "r", "t", "1", "!">>
Passwords == {PwGood, PwShort}

UpperCase ==
  {"A", "B", "C", "D", "E", "F", "G", "H", "I", "J", "K", "L", "M", "N", "O",
   "P", "Q", "R", "S", "T", "U", "V", "W", "X", "Y", "Z"}
LowerCase ==
  {"a", "b", "c", "d", "e", "f", "g", "h", "i", "j", "k", "l", "m", "n", "o",
   "p", "q", "r", "s", "t", "u", "v", "w", "x", "y", "z"}
Digits == {"0", "1", "2", "3", "4", "5", "6", "7", "8", "9"}
Specials ==
  {"!", "@", "#", "$", "%", "^", "&", "*", "(", ")", "_", "+", "-", "=", "[",
   "]", "{", "}", "|", ";", ":", ",", ".", "<", ">", "?"}

re_search(class, password) == \E i \in 1..Len(password) : password[i] \in class

\* validate_password_strength with the lower-case rule ahead of the
\* upper-case rule.
validate_password_strength_lower_first(password) ==
  IF Len(password) < MinPasswordLen
    THEN "La password deve contenere almeno 8 caratteri"
  ELSE IF ~re_search(LowerCase, password)
    THEN "La password deve contenere almeno una lettera minuscola"
  ELSE IF ~re_search(UpperCase, password)
    THEN "La password deve contenere almeno una lettera maiuscola"
  ELSE IF ~re_search(Digits, password)
    THEN "La password deve contenere almeno un numero"
  ELSE IF ~re_search(Specials, password)
    THEN "La password deve contenere almeno un carattere speciale (!@#$%^&*()_+-=[]{}|;:,.<>?)"
  ELSE ""

\* The error message of the first violated rule, or "" when the password
\* passes (the Python function returns (True, None)).
validate_password_strength(password) ==
  IF Len(password) < MinPasswordLen
    THEN "La password deve contenere almeno 8 caratteri"
  ELSE IF ~re_search(UpperCase, password)
    THEN "La password deve contenere almeno una lettera maiuscola"
  ELSE IF ~re_search(LowerCase, password)
    THEN "La password deve contenere almeno una lettera minuscola"
  ELSE IF ~re_search(Digits, password)
    THEN "La password deve contenere almeno un numero"
  ELSE IF ~re_search(Specials, password)
    THEN "La password deve contenere almeno un carattere speciale (!@#$%^&*()_+-=[]{}|;:,.<>?)"
  ELSE ""

\* bcrypt digest of a password: one-way, self-describing; the salt is
\* irrelevant to verification and left out.
hash_password(password) == [bcrypt |-> password]

verify_password(plain_password, hashed_password) ==
  hashed_password.bcrypt = plain_password

\* ------------------------------------------------------------ TokenCodec
\* A datetime is a count of clock ticks, a timedelta a difference of two.
timedelta(seconds) == seconds * TicksPerSecond

\* jwt.encode stores a datetime claim as its whole seconds, and jwt.decode
\* reads the clock in whole seconds as well.
timegm(dt) == dt \div TicksPerSecond

\* create_access_token that does not copy the caller's data into the claims.
create_access_token_without_data(sub, expires_delta, dt) ==
  LET expire == IF expires_delta # 0 THEN dt + expires_delta
                ELSE dt + timedelta(AccessTtl) IN
  [sub |-> NoSub, typ |-> "access", iat |-> timegm(dt), nbf |-> timegm(dt),
   exp |-> timegm(expire), iss |-> JWT_ISSUER, aud |-> JWT_AUDIENCE,
   sig |-> SECRET_KEY]

\* A signed JWT is modelled by its claims and the key that signed it.
\* `if expires_delta:` takes the configured lifetime for None and for
\* timedelta(0) alike (both are 0 here); `dt` is what utcnow() returned.
create_access_token(sub, expires_delta, dt) ==
  LET expire == IF expires_delta # 0 THEN dt + expires_delta
                ELSE dt + timedelta(AccessTtl) IN
  [sub |-> sub, typ |-> "access", iat |-> timegm(dt), nbf |-> timegm(dt),
   exp |-> timegm(expire), iss |-> JWT_ISSUER, aud |-> JWT_AUDIENCE,
   sig |-> SECRET_KEY]

\* create_refresh_token with the type claim of an access token.
create_refresh_token_typed_access(sub, t) ==
  [sub |-> sub, typ |-> "access", iat |-> t, nbf |-> t,
   exp |-> t + RefreshTtl, iss |-> JWT_ISSUER, aud |-> JWT_AUDIENCE,
   sig |-> SECRET_KEY]

\* The lifetime of a refresh token is a whole number of days, so only the
\* whole second `t` of utcnow() matters.

create_refresh_token(sub, t) ==
  [sub |-> sub, typ |-> "refresh", iat |-> t, nbf |-> t,
   exp |-> t + RefreshTtl, iss |-> JWT_ISSUER, aud |-> JWT_AUDIENCE,
   sig |-> SECRET_KEY]

\* verify_token without its comparison of the type claim.
verify_token_any_type(token, token_type, t) ==
  IF token.sig # SECRET_KEY THEN "JWTError"
  ELSE IF token.nbf > t THEN "JWTClaimsError"
  ELSE IF token.exp < t THEN "ExpiredSignatureError"
  ELSE IF token.aud # JWT_AUDIENCE THEN "JWTClaimsError"
  ELSE IF token.iss # JWT_ISSUER THEN "JWTClaimsError"
  ELSE "ok"

\* verify_token with jwt.decode told not to verify exp.
verify_token_without_exp(token, token_type, t) ==
  IF token.sig # SECRET_KEY THEN "JWTError"
  ELSE IF token.nbf > t THEN "JWTClaimsError"
  ELSE IF token.aud # JWT_AUDIENCE THEN "JWTClaimsError"
  ELSE IF token.iss # JWT_ISSUER THEN "JWTClaimsError"
  ELSE IF token.typ # token_type THEN "JWTError"
  ELSE "ok"

\* Outcome of verify_token: "ok" or the class of the exception raised.
\* jwt.decode checks the signature, then nbf, exp, aud, iss; the type check
\* follows in verify_token itself.
verify_token(token, token_type, t) ==
  IF token.sig # SECRET_KEY THEN "JWTError"
  ELSE IF token.nbf > t THEN "JWTClaimsError"
  ELSE IF token.exp < t THEN "ExpiredSignatureError"
  ELSE IF token.aud # JWT_AUDIENCE THEN "JWTClaimsError"
  ELSE IF token.iss # JWT_ISSUER THEN "JWTClaimsError"
  ELSE IF token.typ # token_type THEN "JWTError"
  ELSE "ok"

\* ---------------------------------------------------------------- ledger
\* SHA-256 of the token: deterministic and (for the model) collision-free.
hash_token(token) == [sha256 |-> token]

\* Optional column values are sets with at most one element.
RefreshTokenRow(token_hash, user_id, expires_at) ==
  [token_hash |-> token_hash, user_id |-> user_id, expires_at |-> expires_at,
   revoked |-> FALSE, replaced_by_token_hash |-> {}]

find_token(rows, token) == {r \in rows : r.token_hash = hash_token(token)}

is_token_valid(rows, token, t) ==
  LET found == find_token(rows, token) IN
  IF found = {} THEN FALSE
  ELSE LET refresh_token == CHOOSE r \in found : TRUE IN
       IF refresh_token.revoked THEN FALSE
       ELSE IF refresh_token.expires_at < t THEN FALSE
       ELSE TRUE

\* revoke_token that also clears the link to the replacing token.
revoke_token_clearing_link(rows, token) ==
  {IF r.token_hash = hash_token(token)
     THEN [r EXCEPT !.revoked = TRUE, !.replaced_by_token_hash = {}]
     ELSE r
     : r \in rows}

\* rows after revoke_token.
revoke_token(rows, token) ==
  {IF r.token_hash = hash_token(token) THEN [r EXCEPT !.revoked = TRUE] ELSE r
     : r \in rows}

\* What revoke_token returns: False when find_token found nothing.
revoke_token_result(rows, token) == find_token(rows, token) # {}

revoke_all_user_tokens(rows, user_id) ==
  {IF r.user_id = user_id /\ ~r.revoked THEN [r EXCEPT !.revoked = TRUE] ELSE r
     : r \in rows}

\* The count revoke_all_user_tokens returns: the rows its UPDATE matched.
revoke_all_user_tokens_count(rows, user_id) ==
  Cardinality({r \in rows : r.user_id = user_id /\ ~r.revoked})

\* cleanup_expired_tokens with `revoked == False` added to its filter.
cleanup_expired_tokens_sparing_revoked(rows, t) ==
  {r \in rows : ~(r.expires_at < t /\ ~r.revoked)}

\* rows after cleanup_expired_tokens.
cleanup_expired_tokens(rows, t) == {r \in rows : ~(r.expires_at < t)}

\* The count cleanup_expired_tokens returns: the rows its DELETE matched.
cleanup_expired_tokens_count(rows, t) ==
  Cardinality({r \in rows : r.expires_at < t})

\* The UPDATE half of rotate_token: the old row, when found, is flagged
\* revoked and pointed at the hash of the new token.
rotate_old(rows, old_token, new_token) ==
  {IF r.token_hash = hash_token(old_token)
     THEN [r EXCEPT !.revoked = TRUE,
                    !.replaced_by_token_hash = {hash_token(new_token)}]
     ELSE r
     : r \in rows}

\* A table refresh_tokens without the unique index on token_hash.
UniqueViolation_without_index(rows, token) == FALSE

\* The unique index on token_hash rejects the INSERT of create_token.
UniqueViolation(rows, token) == find_token(rows, token) # {}

\* A create_token whose INSERT never reaches the table.
create_token_lost(rows, token, user_id, t) == rows

\* create_token: the rows after the INSERT and commit.
create_token(rows, token, user_id, t) ==
  rows \cup {RefreshTokenRow(hash_token(token), user_id, t + RefreshTtl)}

\* rotate_token, when its INSERT is accepted: the UPDATE of the old row and
\* the INSERT of the new one are flushed and committed together by the
\* commit inside create_token.
rotate_token(rows, old_token, new_token, user_id, t) ==
  create_token(rotate_old(rows, old_token, new_token), new_token, user_id, t)

\* An aborted rotate_token whose UPDATE of the old row had been committed
\* on its own, ahead of the INSERT.
rotate_token_aborted_after_update(rows, old_token, new_token) ==
  rotate_old(rows, old_token, new_token)

\* The committed rows a call of rotate_token leaves when it is cut short
\* before the commit inside create_token (the storage fails, the process
\* dies): the UPDATE of the old row is pending in the Session and is rolled
\* back when get_db closes it.
rotate_token_aborted(rows, old_token, new_token) == rows

\* The committed rows a call of rotate_token leaves: those of rotate_token,
\* or, when the INSERT breaks the unique index, the rows as they were, the
\* pending UPDATE being rolled back with it when the Session is closed.
rotate_token_committed(rows, old_token, new_token, user_id, t) ==
  IF UniqueViolation(rotate_old(rows, old_token, new_token), new_token)
    THEN rows
  ELSE rotate_token(rows, old_token, new_token, user_id, t)

\* ------------------------------------------------------------ principals
get_user_by_username(rows, username) == {u \in rows : u.name_user = username}

UserRow(id, name_user, hashed_password) ==
  [id |-> id, name_user |-> name_user, hashed_password |-> hashed_password]

\* ---------------------------------------------------------- HTTP results
\* What a handler returns or raises. `cause` is not part of what the caller
\* receives: it names the branch of the handler that produced the response.
Response(status, detail, cause, access_token, refresh_token) ==
  [status |-> status, detail |-> detail, cause |-> cause,
   access_token |-> access_token, refresh_token |-> refresh_token]

Failure(status, detail, cause) ==
  Response(status, detail, cause, NoToken, NoToken)

\* The handler has not answered yet and goes on to its next step.
Continue == Failure(0, "", "continue")

\* What the caller sees of a response.
Body(r) ==
  [status |-> r.status, detail |-> r.detail,
   access_token |-> r.access_token, refresh_token |-> r.refresh_token]

\* ------------------------------------------------------------------ state
VARIABLES
  users,        \* rows of table users
  settings,     \* ids of the users that have a user_settings row
  ledger,       \* rows of table refresh_tokens (committed state)
  now,          \* the clock
  pc,           \* per request slot: the step of /auth/refresh it is at
  req,          \* per request slot: the locals of refresh_access_token
  rotations,    \* history: [old, new] of every refresh that returned 200
  revocations,  \* history: the hashes of the rows revoke_token and
                \* revoke_all_user_tokens have flagged
  tasks,        \* rows of table tasks (committed state)
  nextTaskId,   \* the identifier the next created task receives
  connRole,     \* per pooled connection: the role its database session keeps
  connSub,      \* per pooled connection: the username whose committed
                \* operation set that role
  sess,         \* per task request: its Session and the locals of its handler
  presented,    \* the bearer token last handed to get_current_user
  outcome,      \* what get_current_user made of it
  micro,        \* the clock's fraction of a second, in ticks
  reg,          \* per registration request: the locals of register_user
  environ,      \* SECRET_KEY of the process environment, if it is set
  loaded,       \* whether app.core.config and app.core.security are imported
  job,          \* a ledger operation in progress, statement by statement
  sweep         \* the cleanup_expired_tokens call that runs beside it

authVars == <<users, settings, ledger, now, pc, req, rotations, revocations>>

taskVars == <<tasks, nextTaskId, connRole, connSub, sess>>

verifyVars == <<presented, outcome, micro>>

\* datetime.utcnow()
utcnow == now * TicksPerSecond + micro

regVars == <<reg>>

bootVars == <<environ, loaded>>

\* The sweep and the operation it runs beside.
sweepVars == <<job, sweep>>

vars == <<authVars, taskVars, verifyVars, regVars, bootVars, sweepVars>>

IdleReq ==
  [token |-> NoToken, username |-> NoSub, user_id |-> NoUserId,
   access_token |-> NoToken, new_refresh_token |-> NoToken]

\* Tokens a client may present: every refresh token the codec can have
\* issued within the clock range, an access token, and none at all.
Presentable ==
  {create_refresh_token(s, i) : s \in Subjects, i \in 0..MaxTime}
    \cup {create_access_token(s, timedelta(AccessTtl), 0) : s \in Subjects}

\* ------------------------------------------------------- requests on tasks
TaskProcs == {"q1", "q2"}
Conns == {"c1", "c2"}
NoConn == "<none>"
NoStatement == [name |-> "none", role |-> "", sub |-> NoSub]

IdleSess ==
  [pc |-> "idle", op |-> "none", username |-> NoSub, task_id |-> 0,
   tenant_id |-> NoUserId, conn |-> NoConn, options |-> NoSub,
   statement |-> NoStatement, left_by |-> NoSub, owners |-> {},
   status |-> 0]

\* ---------------------------------------------------------------- startup
\* An environment variable is a set with at most one element, a secret the
\* sequence of its characters.
Key(n) == [i \in 1..n |-> "k"]

\* app/core/config.py without the check of the length.
load_config_any_length(env) ==
  IF env = {} \/ env = {<<>>} THEN "RuntimeError" ELSE "ok"

\* Import of app/core/config.py: `if not SECRET_KEY` refuses a variable
\* that is unset or empty, `len(SECRET_KEY) < 32` one that is too short.
load_config(env) ==
  IF env = {} \/ env = {<<>>} THEN "RuntimeError"
  ELSE IF Len(CHOOSE k \in env : TRUE) < MinSecretLen THEN "RuntimeError"
  ELSE "ok"

\* ------------------------------------------------- registration requests
RegProcs == {"g1", "g2"}

\* `hashed_password` is empty until hash_password has run; `began` is the
\* number of principals there were when the request arrived.
IdleReg ==
  [pc |-> "idle", name_user |-> NoSub, password |-> <<>>,
   hashed_password |-> {}, user_id |-> NoUserId, began |-> 0,
   status |-> 0, detail |-> ""]

\* ------------------------------------------- the sweep and its neighbour
\* `found` is what find_token loaded into the Session, `began` the committed
\* ledger when the two calls started, t_read and t_write the clock at the
\* operation's first statement and at its commit.
IdleJob ==
  [op |-> "none", pc |-> "idle", token |-> NoToken, username |-> NoSub,
   password |-> <<>>, new_token |-> NoToken, user_id |-> NoUserId,
   found |-> {}, began |-> {}, t_read |-> 0, t_write |-> 0, result |-> "",
   count |-> 0]

\* `removed` is what the DELETE took away, `at` the clock it compared with.
IdleSweep == [pc |-> "idle", at |-> 0, count |-> 0, removed |-> {}]

\* No credential or bearer token has been handed over yet.
NoOutcome == [status |-> 0, detail |-> "", username |-> NoSub]

InitAuthPart ==
  /\ users = {}
  /\ settings = {}
  /\ ledger = {}
  /\ now = 0
  /\ pc = [p \in Procs |-> "idle"]
  /\ req = [p \in Procs |-> IdleReq]
  /\ rotations = {}
  /\ revocations = {}

InitTaskPart ==
  /\ tasks = {}
  /\ nextTaskId = 1
  /\ connRole = [c \in Conns |-> "login"]
  /\ connSub = [c \in Conns |-> NoSub]
  /\ sess = [p \in TaskProcs |-> IdleSess]

InitVerifyPart ==
  /\ presented = NoToken
  /\ outcome = NoOutcome
  /\ micro = 0

InitRegPart == reg = [p \in RegProcs |-> IdleReg]

\* The application is up: its modules were imported with a signing secret
\* that passed the checks of config.py.
InitBootPart ==
  /\ environ = {Key(MinSecretLen)}
  /\ loaded = "yes"

InitSweepPart ==
  /\ job = IdleJob
  /\ sweep = IdleSweep

Init ==
  InitAuthPart /\ InitTaskPart /\ InitVerifyPart /\ InitRegPart
    /\ InitBootPart /\ InitSweepPart

\* ------------------------------------------------- AuthService.register_user
register_user(name_user, password) ==
  /\ IF validate_password_strength(password) # ""
        THEN UNCHANGED <<users, settings>>                       \* 422
      ELSE IF get_user_by_username(users, name_user) # {}
        THEN UNCHANGED <<users, settings>>     \* IntegrityError -> 400
      ELSE LET user == UserRow(Cardinality(users) + 1, name_user,
                               hash_password(password))
           IN /\ users' = users \cup {user}
              /\ settings' = settings \cup {user.id}
  /\ UNCHANGED <<ledger, now, pc, req, rotations, revocations>>
  /\ UNCHANGED <<taskVars, verifyVars, regVars, bootVars, sweepVars>>

\* --------------------------------------------- AuthService.authenticate_user
\* A failure response whose message names the branch that produced it.
LoginFailedNamingCause(cause) == Failure(401, cause, cause)

LoginFailed(cause) == Failure(401, "Incorrect username or password", cause)

\* The response of authenticate_user(username, password).
login_response(username, password) ==
  LET found == get_user_by_username(users, username) IN
  IF found = {} THEN LoginFailed("unknown_user")
  ELSE IF ~verify_password(password, (CHOOSE u \in found : TRUE).hashed_password)
    THEN LoginFailed("wrong_password")
  ELSE IF UniqueViolation(ledger, create_refresh_token(username, now))
    THEN Failure(500, "An unexpected error occurred. Please try again later.",
                 "integrity_error")
  ELSE Response(200, "bearer", "ok",
                create_access_token(username, timedelta(AccessTtl), utcnow),
                create_refresh_token(username, now))

\* The ledger that authenticate_user(username, password) commits. The clock
\* may advance between the utcnow() of create_refresh_token and the utcnow()
\* of create_token: d is that advance.
login_ledger(username, password, d) ==
  LET response == login_response(username, password) IN
  IF response.status = 200
    THEN create_token(
           ledger, response.refresh_token,
           (CHOOSE u \in get_user_by_username(users, username) : TRUE).id,
           now + d)
    ELSE ledger

authenticate_user(username, password, d) ==
  /\ now + d <= MaxTime
  /\ IF login_response(username, password).status = 200
       THEN /\ Cardinality(ledger) < MaxRecords
            /\ now' = now + d
       ELSE /\ d = 0
            /\ now' = now
  /\ ledger' = login_ledger(username, password, d)
  /\ UNCHANGED <<users, settings, pc, req, rotations, revocations>>
  /\ UNCHANGED <<taskVars, verifyVars, regVars, bootVars, sweepVars>>

\* ------------------------------------------------ POST /auth/refresh steps
Finish(p) ==
  /\ pc' = [pc EXCEPT ![p] = "idle"]
  /\ req' = [req EXCEPT ![p] = IdleReq]

\* STEP 1 (auth.py:252-270): the token is read from the request and checked
\* against the ledger.
refresh_check_response(token) ==
  IF token = NoToken
    THEN Failure(401, "Refresh token not provided", "not_provided")
  ELSE IF ~is_token_valid(ledger, token, now)
    THEN Failure(401, "Invalid or revoked refresh token", "ledger_invalid")
  ELSE Continue

RefreshCheck(p, token) ==
  /\ pc[p] = "idle"
  /\ IF refresh_check_response(token) # Continue
       THEN Finish(p)
       ELSE /\ pc' = [pc EXCEPT ![p] = "verify"]
            /\ req' = [req EXCEPT ![p] = [IdleReq EXCEPT !.token = token]]
  /\ UNCHANGED <<users, settings, ledger, now, rotations, revocations>>
  /\ UNCHANGED <<taskVars, verifyVars, regVars, bootVars, sweepVars>>

\* STEP 2-3 (auth.py:272-282): JWT verification and the sub claim. An
\* exception of verify_token reaches the handler's `except Exception`.
refresh_verify_response(p) ==
  IF verify_token(req[p].token, "refresh", now) # "ok"
    THEN Failure(401, "Invalid or expired refresh token",
                 verify_token(req[p].token, "refresh", now))
  ELSE IF req[p].token.sub = NoSub
    THEN Failure(401, "Invalid refresh token", "missing_sub")
  ELSE Continue

RefreshVerify(p) ==
  /\ pc[p] = "verify"
  /\ IF refresh_verify_response(p) # Continue
       THEN Finish(p)
       ELSE /\ pc' = [pc EXCEPT ![p] = "lookup"]
            /\ req' = [req EXCEPT ![p].username = req[p].token.sub]
  /\ UNCHANGED <<users, settings, ledger, now, rotations, revocations>>
  /\ UNCHANGED <<taskVars, verifyVars, regVars, bootVars, sweepVars>>

\* STEP 4 (auth.py:284-293): the principal is resolved again.
refresh_lookup_response(p) ==
  IF get_user_by_username(users, req[p].username) = {}
    THEN Failure(401, "User not found", "user_not_found")
  ELSE Continue

\* STEP 4 taking the id of whichever principal the table returns first.
RefreshLookup_any_user(p) ==
  /\ pc[p] = "lookup"
  /\ IF refresh_lookup_response(p) # Continue
       THEN Finish(p)
       ELSE /\ pc' = [pc EXCEPT ![p] = "issue"]
            /\ req' = [req EXCEPT ![p].user_id = (CHOOSE u \in users : TRUE).id]
  /\ UNCHANGED <<users, settings, ledger, now, rotations, revocations>>
  /\ UNCHANGED <<taskVars, verifyVars, regVars, bootVars, sweepVars>>

RefreshLookup(p) ==
  /\ pc[p] = "lookup"
  /\ IF refresh_lookup_response(p) # Continue
       THEN Finish(p)
       ELSE /\ pc' = [pc EXCEPT ![p] = "issue"]
            /\ req' = [req EXCEPT ![p].user_id =
                 (CHOOSE u \in get_user_by_username(users, req[p].username) : TRUE).id]
  /\ UNCHANGED <<users, settings, ledger, now, rotations, revocations>>
  /\ UNCHANGED <<taskVars, verifyVars, regVars, bootVars, sweepVars>>

\* STEP 5-6 (auth.py:295-304): the new pair is issued.
RefreshIssue(p) ==
  /\ pc[p] = "issue"
  /\ pc' = [pc EXCEPT ![p] = "rotate"]
  /\ req' = [req EXCEPT
               ![p].access_token = create_access_token(req[p].username, timedelta(AccessTtl), utcnow),
               ![p].new_refresh_token = create_refresh_token(req[p].username, now)]
  /\ UNCHANGED <<users, settings, ledger, now, rotations, revocations>>
  /\ UNCHANGED <<taskVars, verifyVars, regVars, bootVars, sweepVars>>

\* STEP 7 (auth.py:306-330): rotate_token in one transaction, then the
\* response. An IntegrityError of the INSERT rolls the transaction back and
\* is turned into the generic 401 by the handler's `except Exception`.
refresh_rotate_response(p) ==
  IF UniqueViolation(rotate_old(ledger, req[p].token, req[p].new_refresh_token),
                     req[p].new_refresh_token)
    THEN Failure(401, "Invalid or expired refresh token", "integrity_error")
  ELSE Response(200, "bearer", "ok", req[p].access_token, req[p].new_refresh_token)

RefreshRotate(p) ==
  /\ pc[p] = "rotate"
  /\ ledger' = rotate_token_committed(ledger, req[p].token,
                                       req[p].new_refresh_token,
                                       req[p].user_id, now)
  /\ IF refresh_rotate_response(p).status = 200
       THEN /\ Cardinality(ledger) < MaxRecords
            /\ rotations' = rotations \cup
                 {[old |-> req[p].token, new |-> req[p].new_refresh_token]}
       ELSE UNCHANGED rotations
  /\ Finish(p)
  /\ UNCHANGED <<users, settings, now, revocations>>
  /\ UNCHANGED <<taskVars, verifyVars, regVars, bootVars, sweepVars>>

\* STEP 7 cut short: rotate_token does not reach its commit.
RefreshRotateAborted(p) ==
  /\ pc[p] = "rotate"
  /\ ledger' = rotate_token_aborted(ledger, req[p].token,
                                     req[p].new_refresh_token)
  /\ Finish(p)
  /\ UNCHANGED <<users, settings, now, rotations, revocations>>
  /\ UNCHANGED <<taskVars, verifyVars, regVars, bootVars, sweepVars>>

\* ------------------------------------------- ledger operations, one each
RevokeToken(token) ==
  /\ ledger' = revoke_token(ledger, token)
  /\ revocations' =
       IF find_token(ledger, token) # {}
         THEN revocations \cup {hash_token(token)}
       ELSE revocations
  /\ UNCHANGED <<users, settings, now, pc, req, rotations>>
  /\ UNCHANGED <<taskVars, verifyVars, regVars, bootVars, sweepVars>>

RevokeAllUserTokens(user_id) ==
  /\ ledger' = revoke_all_user_tokens(ledger, user_id)
  /\ revocations' = revocations \cup
       {r.token_hash : r \in {x \in ledger : x.user_id = user_id /\ ~x.revoked}}
  /\ UNCHANGED <<users, settings, now, pc, req, rotations>>
  /\ UNCHANGED <<taskVars, verifyVars, regVars, bootVars, sweepVars>>

CleanupExpiredTokens ==
  /\ ledger' = cleanup_expired_tokens(ledger, now)
  /\ UNCHANGED <<users, settings, now, pc, req, rotations, revocations>>
  /\ UNCHANGED <<taskVars, verifyVars, regVars, bootVars, sweepVars>>

Tick ==
  /\ now < MaxTime
  /\ now' = now + 1
  /\ UNCHANGED <<users, settings, ledger, pc, req, rotations, revocations>>
  /\ UNCHANGED <<taskVars, verifyVars, regVars, bootVars, sweepVars>>

NextAuth ==
  \/ \E u \in LedgerSubjects, pw \in Passwords : register_user(u, pw)
  \/ \E u \in Subjects \cup {Unknown}, pw \in Passwords, d \in 0..1 :
       authenticate_user(u, pw, d)
  \/ \E p \in Procs, t \in Presentable \cup {NoToken} : RefreshCheck(p, t)
  \/ \E p \in Procs : RefreshVerify(p)
  \/ \E p \in Procs : RefreshLookup(p)
  \/ \E p \in Procs : RefreshIssue(p)
  \/ \E p \in Procs : RefreshRotate(p)
  \/ \E p \in Procs : RefreshRotateAborted(p)
  \/ \E t \in Presentable : RevokeToken(t)
  \/ \E u \in users : RevokeAllUserTokens(u.id)
  \/ CleanupExpiredTokens
  \/ Tick

SpecAuth == Init /\ [][NextAuth]_vars

\* =========================================================== task requests
\* Every request has its own Session (get_db); the Session procures a
\* connection from the pool when it first needs one and gives it back at
\* commit, rollback or close.
TaskRow(id, tenant_id, title) ==
  [id |-> id, tenant_id |-> tenant_id, title |-> title]

TaskIds == 1..MaxTasks

\* UserRepository.get_user_id_by_username: the id, as a set of at most one.
get_user_id_by_username(rows, username) ==
  {u.id : u \in get_user_by_username(rows, username)}

FreeConns == {c \in Conns : \A p \in TaskProcs : sess[p].conn # c}

\* set_rls_context(db, username): the execution options of the Session's
\* connection afterwards. Session.connection(execution_options=...) hands
\* the options to a connection only while procuring it; when the Session
\* already holds one they are ignored.
set_rls_context(conn, options, username) ==
  IF conn = NoConn THEN username ELSE options

\* A listener that never binds anything.
receive_before_cursor_execute_skipped(options, conn_role) ==
  [role |-> conn_role, sub |-> NoSub]

\* The listener before every statement: with a username in the execution
\* options it issues SET role authenticated and set_config(sub, username);
\* without one the statement runs under whatever the connection has: its
\* role, and no sub (set_config(..., true) ends with the transaction).
receive_before_cursor_execute(options, conn_role) ==
  IF options # NoSub THEN [role |-> "authenticated", sub |-> options]
  ELSE [role |-> conn_role, sub |-> NoSub]

\* The row policy of table tasks in the database: under role authenticated
\* a row is visible and writable when its tenant is the user named by the
\* sub claim; the login role of the application is not restricted.
rls_allows(ctx, row) ==
  IF ctx.role = "authenticated"
    THEN row.tenant_id \in get_user_id_by_username(users, ctx.sub)
    ELSE TRUE

\* The statement a request ran last on tasks, as the database saw it.
Statement(name, ctx) == [name |-> name, role |-> ctx.role, sub |-> ctx.sub]

\* SET role lasts beyond the transaction once it commits.
RoleAfterCommit(options, conn_role) ==
  IF options # NoSub THEN "authenticated" ELSE conn_role

\* The username that set the role a connection keeps after a commit.
SubAfterCommit(options, conn_sub) ==
  IF options # NoSub THEN options ELSE conn_sub

\* Whose committed operation a statement on connection c owes its role to:
\* nobody's when the listener sets the role for this statement or the
\* connection has the login role.
LeftBy(options, c) ==
  IF options # NoSub \/ connRole[c] # "authenticated" THEN NoSub
  ELSE connSub[c]

\* The tenants of the rows a request was given, wrote or deleted.
Owners(rows) == {t.tenant_id : t \in rows}

\* SELECT ... FROM tasks [WHERE id IN ids] as the database answers it.
select_tasks(ctx, ids) == {t \in tasks : t.id \in ids /\ rls_allows(ctx, t)}

\* A request by username may start: its access token names a stored user.
MayStart(p, username, c) ==
  /\ sess[p].pc = "idle"
  /\ get_user_by_username(users, username) # {}
  /\ c \in FreeConns

\* TaskRepository.get_all_tasks on a new Session: set_rls_context procures
\* connection c, the SELECT follows.
get_all_tasks(p, username, c) ==
  LET options == set_rls_context(NoConn, NoSub, username)
      ctx == receive_before_cursor_execute(options, connRole[c])
  IN /\ MayStart(p, username, c)
     /\ sess' = [sess EXCEPT ![p] =
          [IdleSess EXCEPT !.pc = "close", !.op = "list",
             !.username = username, !.conn = c, !.options = options,
             !.statement = Statement("select", ctx),
             !.left_by = LeftBy(options, c),
             !.owners = Owners(select_tasks(ctx, TaskIds)), !.status = 200]]
     /\ UNCHANGED <<tasks, nextTaskId, connRole, connSub>>
     /\ UNCHANGED <<authVars, verifyVars, regVars, bootVars, sweepVars>>

\* TaskService.get_task / TaskRepository.get_task_by_id.
get_task_by_id(p, username, task_id, c) ==
  LET options == set_rls_context(NoConn, NoSub, username)
      ctx == receive_before_cursor_execute(options, connRole[c])
      rows == select_tasks(ctx, {task_id})
  IN /\ MayStart(p, username, c)
     /\ sess' = [sess EXCEPT ![p] =
          [IdleSess EXCEPT !.pc = "close", !.op = "get",
             !.username = username, !.task_id = task_id, !.conn = c,
             !.options = options, !.statement = Statement("select", ctx),
             !.left_by = LeftBy(options, c),
             !.owners = Owners(rows),
             !.status = IF rows = {} THEN 404 ELSE 200]]
     /\ UNCHANGED <<tasks, nextTaskId, connRole, connSub>>
     /\ UNCHANGED <<authVars, verifyVars, regVars, bootVars, sweepVars>>

\* update_task and delete_task up to their SELECT: not found ends the
\* request with 404, found goes on to the commit.
FetchForWrite(p, op, username, task_id, c) ==
  LET options == set_rls_context(NoConn, NoSub, username)
      ctx == receive_before_cursor_execute(options, connRole[c])
      rows == select_tasks(ctx, {task_id})
  IN /\ MayStart(p, username, c)
     /\ sess' = [sess EXCEPT ![p] =
          [IdleSess EXCEPT !.pc = IF rows = {} THEN "close" ELSE "commit",
             !.op = op, !.username = username, !.task_id = task_id,
             !.conn = c, !.options = options,
             !.statement = Statement("select", ctx),
             !.left_by = LeftBy(options, c),
             !.status = IF rows = {} THEN 404 ELSE 0]]
     /\ UNCHANGED <<tasks, nextTaskId, connRole, connSub>>
     /\ UNCHANGED <<authVars, verifyVars, regVars, bootVars, sweepVars>>

update_task(p, username, task_id, c) ==
  FetchForWrite(p, "update", username, task_id, c)

delete_task(p, username, task_id, c) ==
  FetchForWrite(p, "delete", username, task_id, c)

\* The Session after commit or rollback: its connection is back in the pool.
Released(s) == [s EXCEPT !.conn = NoConn, !.options = NoSub]

\* update_task, `db.commit()`: the UPDATE is flushed in the transaction of
\* the SELECT and committed. A row that no longer answers raises
\* StaleDataError, which the method turns into a rollback and 500.
update_task_commit(p) ==
  LET s == sess[p]
      ctx == receive_before_cursor_execute(s.options, connRole[s.conn])
      rows == select_tasks(ctx, {s.task_id})
      updated == {[t EXCEPT !.title = "final"] : t \in rows}
  IN /\ s.pc = "commit" /\ s.op = "update"
     /\ IF rows = {}
          THEN /\ UNCHANGED <<tasks, connRole, connSub>>
               /\ sess' = [sess EXCEPT ![p] =
                    [Released(s) EXCEPT !.pc = "done", !.status = 500,
                       !.statement = Statement("update", ctx),
                       !.left_by = LeftBy(s.options, s.conn)]]
          ELSE /\ tasks' = (tasks \ rows) \cup updated
               /\ connRole' = [connRole EXCEPT
                    ![s.conn] = RoleAfterCommit(s.options, @)]
               /\ connSub' = [connSub EXCEPT
                    ![s.conn] = SubAfterCommit(s.options, @)]
               /\ sess' = [sess EXCEPT ![p] =
                    [Released(s) EXCEPT !.pc = "refresh",
                       !.owners = Owners(updated),
                       !.statement = Statement("update", ctx),
                       !.left_by = LeftBy(s.options, s.conn)]]
     /\ UNCHANGED nextTaskId
     /\ UNCHANGED <<authVars, verifyVars, regVars, bootVars, sweepVars>>

\* delete_task, `db.delete(task); db.commit()`.
delete_task_commit(p) ==
  LET s == sess[p]
      ctx == receive_before_cursor_execute(s.options, connRole[s.conn])
      rows == select_tasks(ctx, {s.task_id})
  IN /\ s.pc = "commit" /\ s.op = "delete"
     /\ tasks' = tasks \ rows
     /\ connRole' = [connRole EXCEPT ![s.conn] = RoleAfterCommit(s.options, @)]
     /\ connSub' = [connSub EXCEPT ![s.conn] = SubAfterCommit(s.options, @)]
     /\ sess' = [sess EXCEPT ![p] =
          [Released(s) EXCEPT !.pc = "done", !.status = 204,
             !.owners = Owners(rows),
             !.statement = Statement("delete", ctx),
             !.left_by = LeftBy(s.options, s.conn)]]
     /\ UNCHANGED nextTaskId
     /\ UNCHANGED <<authVars, verifyVars, regVars, bootVars, sweepVars>>

\* TaskService.create_task up to `db.add`: the tenant-id lookup procures
\* connection c for the Session, then TaskRepository.create_task calls
\* set_rls_context on the Session that already holds it.
create_task(p, username, c) ==
  /\ MayStart(p, username, c)
  /\ nextTaskId <= MaxTasks
  /\ sess' = [sess EXCEPT ![p] =
       [IdleSess EXCEPT !.pc = "commit", !.op = "create",
          !.username = username, !.conn = c,
          !.tenant_id =
            CHOOSE id \in get_user_id_by_username(users, username) : TRUE,
          !.options = set_rls_context(c, NoSub, username)]]
  /\ UNCHANGED <<tasks, nextTaskId, connRole, connSub>>
  /\ UNCHANGED <<authVars, verifyVars, regVars, bootVars, sweepVars>>

\* create_task, `db.commit()`: the INSERT is flushed and committed; a row
\* the policy rejects raises, and the method rolls back and answers 500.
create_task_commit(p) ==
  LET s == sess[p]
      ctx == receive_before_cursor_execute(s.options, connRole[s.conn])
      new_task == TaskRow(nextTaskId, s.tenant_id, "draft")
  IN /\ s.pc = "commit" /\ s.op = "create"
     /\ nextTaskId <= MaxTasks
     /\ IF rls_allows(ctx, new_task)
          THEN /\ tasks' = tasks \cup {new_task}
               /\ nextTaskId' = nextTaskId + 1
               /\ connRole' = [connRole EXCEPT
                    ![s.conn] = RoleAfterCommit(s.options, @)]
               /\ connSub' = [connSub EXCEPT
                    ![s.conn] = SubAfterCommit(s.options, @)]
               /\ sess' = [sess EXCEPT ![p] =
                    [Released(s) EXCEPT !.pc = "refresh",
                       !.task_id = new_task.id, !.owners = Owners({new_task}),
                       !.statement = Statement("insert", ctx),
                       !.left_by = LeftBy(s.options, s.conn)]]
          ELSE /\ UNCHANGED <<tasks, nextTaskId, connRole, connSub>>
               /\ sess' = [sess EXCEPT ![p] =
                    [Released(s) EXCEPT !.pc = "done", !.status = 500,
                       !.statement = Statement("insert", ctx),
                       !.left_by = LeftBy(s.options, s.conn)]]
     /\ UNCHANGED <<authVars, verifyVars, regVars, bootVars, sweepVars>>

\* `db.refresh(...)` after the commit of create_task and update_task: the
\* Session begins a new transaction on a connection c it procures without
\* execution options and re-reads the row by its key. A row that does not
\* answer raises; the method rolls back and answers 500.
refresh(p, c) ==
  LET s == sess[p]
      ctx == receive_before_cursor_execute(NoSub, connRole[c])
      rows == select_tasks(ctx, {s.task_id})
  IN /\ s.pc = "refresh"
     /\ c \in FreeConns
     /\ sess' = [sess EXCEPT ![p] =
          IF rows = {}
            THEN [s EXCEPT !.pc = "done", !.status = 500, !.owners = {},
                    !.statement = Statement("refresh", ctx),
                    !.left_by = LeftBy(NoSub, c)]
            ELSE [s EXCEPT !.pc = "close", !.conn = c, !.owners = Owners(rows),
                    !.status = IF s.op = "create" THEN 201 ELSE 200,
                    !.statement = Statement("refresh", ctx),
                    !.left_by = LeftBy(NoSub, c)]]
     /\ UNCHANGED <<tasks, nextTaskId, connRole, connSub>>
     /\ UNCHANGED <<authVars, verifyVars, regVars, bootVars, sweepVars>>

\* get_db, `db.close()`: the open transaction is rolled back, and with it
\* the SET role it made; the connection returns to the pool and the
\* response leaves.
close(p) ==
  /\ sess[p].pc = "close"
  /\ sess' = [sess EXCEPT ![p] = IdleSess]
  /\ UNCHANGED <<tasks, nextTaskId, connRole, connSub>>
  /\ UNCHANGED <<authVars, verifyVars, regVars, bootVars, sweepVars>>

\* The response of a request that ended at its commit or with an error
\* leaves; the slot is free for the next request.
Reply(p) ==
  /\ sess[p].pc = "done"
  /\ sess' = [sess EXCEPT ![p] = IdleSess]
  /\ UNCHANGED <<tasks, nextTaskId, connRole, connSub>>
  /\ UNCHANGED <<authVars, verifyVars, regVars, bootVars, sweepVars>>

NextTasks ==
  \/ \E u \in Subjects : register_user(u, PwGood)
  \/ \E p \in TaskProcs, u \in Subjects, c \in Conns : get_all_tasks(p, u, c)
  \/ \E p \in TaskProcs, u \in Subjects, id \in TaskIds, c \in Conns :
       get_task_by_id(p, u, id, c)
  \/ \E p \in TaskProcs, u \in Subjects, c \in Conns : create_task(p, u, c)
  \/ \E p \in TaskProcs, u \in Subjects, id \in TaskIds, c \in Conns :
       update_task(p, u, id, c)
  \/ \E p \in TaskProcs, u \in Subjects, id \in TaskIds, c \in Conns :
       delete_task(p, u, id, c)
  \/ \E p \in TaskProcs : create_task_commit(p)
  \/ \E p \in TaskProcs : update_task_commit(p)
  \/ \E p \in TaskProcs : delete_task_commit(p)
  \/ \E p \in TaskProcs, c \in Conns : refresh(p, c)
  \/ \E p \in TaskProcs : close(p)
  \/ \E p \in TaskProcs : Reply(p)

SpecTasks == Init /\ [][NextTasks]_vars

\* ====================================================== protected routes
\* Bearer tokens a caller may hand to a protected route: every combination
\* of signing key, claims and validity window.
TokenInputs ==
  [sub : {"alice", NoSub}, typ : {"access", "refresh"}, iat : {0},
   nbf : 0..MaxTime, exp : 0..MaxTime,
   iss : {JWT_ISSUER, "other-issuer"}, aud : {JWT_AUDIENCE, "other-audience"},
   sig : {SECRET_KEY, "other-key"}]

CredentialsException ==
  [status |-> 401, detail |-> "Could not validate credentials",
   username |-> NoSub]

\* get_current_user that also asks the ledger whether the subject still
\* owns a record that is not revoked.
get_current_user_asking_ledger(token, t) ==
  IF verify_token(token, "access", t) # "ok" THEN CredentialsException
  ELSE IF token.sub = NoSub THEN CredentialsException
  ELSE IF \A r \in ledger :
            r.revoked \/ r.user_id \notin
                           {u.id : u \in get_user_by_username(users, token.sub)}
    THEN CredentialsException
  ELSE [status |-> 200, detail |-> "", username |-> token.sub]

\* get_current_user: every exception of verify_token is a JWTError and is
\* answered like a missing sub.
get_current_user(token, t) ==
  IF verify_token(token, "access", t) # "ok" THEN CredentialsException
  ELSE IF token.sub = NoSub THEN CredentialsException
  ELSE [status |-> 200, detail |-> "", username |-> token.sub]

\* A protected route receives a bearer token.
Authorize(token) ==
  /\ presented' = token
  /\ outcome' = get_current_user(token, now)
  /\ UNCHANGED <<authVars, taskVars, micro, regVars, bootVars, sweepVars>>

NextVerify ==
  \/ \E token \in TokenInputs : Authorize(token)
  \/ Tick

SpecVerify == Init /\ [][NextVerify]_vars

\* ========================================================== registration
\* Passwords a caller may submit: some filler characters, which belong to
\* none of the character classes, followed by any choice among one
\* upper-case letter, one lower-case letter, one digit and one symbol.
Filler == "~"
ClassChars == <<"A", "b", "7", "!">>
FillLens == {3, 4, 8}

Fill(n) == [i \in 1..n |-> Filler]

PasswordInputs ==
  {Fill(n) \o SelectSeq(ClassChars, LAMBDA c : c \in chosen) :
     n \in FillLens, chosen \in SUBSET {"A", "b", "7", "!"}}

\* The table users without its UNIQUE constraint.
users_name_user_key_absent(rows, name_user) == FALSE

\* UNIQUE constraint on users.name_user: would a row of this name break it?
users_name_user_key(rows, name_user) ==
  \E u \in rows : u.name_user = name_user

\* register_user, STEP 1 and hash_password: a weak password ends the
\* request with 422 and the reason.
RegisterValidate(p, name_user, password) ==
  /\ reg[p].pc = "idle"
  /\ LET error_message == validate_password_strength(password)
         arrived == [IdleReg EXCEPT !.name_user = name_user,
                                    !.password = password,
                                    !.began = Cardinality(users)]
     IN reg' = [reg EXCEPT ![p] =
          IF error_message # ""
            THEN [arrived EXCEPT !.pc = "done", !.status = 422,
                                 !.detail = error_message]
            ELSE [arrived EXCEPT !.pc = "create_user",
                    !.hashed_password = {hash_password(password)}]]
  /\ UNCHANGED <<authVars, taskVars, verifyVars, bootVars, sweepVars>>

\* UserRepository.create_user: INSERT and commit; the IntegrityError of the
\* UNIQUE constraint is rolled back and answered with 400.
CreateUser(p) ==
  /\ reg[p].pc = "create_user"
  /\ IF users_name_user_key(users, reg[p].name_user)
       THEN /\ users' = users
            /\ reg' = [reg EXCEPT ![p].pc = "done", ![p].status = 400,
                 ![p].detail =
                   "Username already exists. Please choose a different username."]
       ELSE LET new_user ==
                  UserRow(Cardinality(users) + 1, reg[p].name_user,
                          CHOOSE h \in reg[p].hashed_password : TRUE)
            IN /\ users' = users \cup {new_user}
               /\ reg' = [reg EXCEPT ![p].pc = "settings",
                                     ![p].user_id = new_user.id]
  /\ UNCHANGED <<settings, ledger, now, pc, req, rotations, revocations>>
  /\ UNCHANGED <<taskVars, verifyVars, bootVars, sweepVars>>

\* register_user, STEP 3 and 4: the default settings row, then the result.
CreateSettings(p) ==
  /\ reg[p].pc = "settings"
  /\ settings' = settings \cup {reg[p].user_id}
  /\ reg' = [reg EXCEPT ![p].pc = "done", ![p].status = 201,
                        ![p].detail = "User registered successfully"]
  /\ UNCHANGED <<users, ledger, now, pc, req, rotations, revocations>>
  /\ UNCHANGED <<taskVars, verifyVars, bootVars, sweepVars>>

\* The response leaves; the slot takes the next request.
RegisterReply(p) ==
  /\ reg[p].pc = "done"
  /\ reg' = [reg EXCEPT ![p] = IdleReg]
  /\ UNCHANGED <<authVars, taskVars, verifyVars, bootVars, sweepVars>>

NextRegister ==
  \/ \E p \in RegProcs, name_user \in Subjects, password \in PasswordInputs :
       RegisterValidate(p, name_user, password)
  \/ \E p \in RegProcs : CreateUser(p)
  \/ \E p \in RegProcs : CreateSettings(p)
  \/ \E p \in RegProcs : RegisterReply(p)

SpecRegister == Init /\ [][NextRegister]_vars

\* register_user, STEP 3 when the storage fails while the settings row is
\* read or written: create_defaults rolls its INSERT back and raises 500;
\* the row of create_user was committed by create_user itself.
CreateSettingsFailed(p) ==
  /\ reg[p].pc = "settings"
  /\ reg' = [reg EXCEPT ![p].pc = "done", ![p].status = 500,
                        ![p].detail = "Failed to initialize user settings."]
  /\ UNCHANGED <<authVars, taskVars, verifyVars, bootVars, sweepVars>>

\* Registration on a storage that may fail after the principal is stored.
NextRegisterFaults ==
  \/ \E p \in RegProcs, name_user \in Subjects, password \in PasswordInputs :
       RegisterValidate(p, name_user, password)
  \/ \E p \in RegProcs : CreateUser(p)
  \/ \E p \in RegProcs : CreateSettings(p)
  \/ \E p \in RegProcs : CreateSettingsFailed(p)
  \/ \E p \in RegProcs : RegisterReply(p)

SpecRegisterFaults == Init /\ [][NextRegisterFaults]_vars

\* ============================================================ token codec
\* Lifetimes a caller may pass to create_access_token, in ticks: negative,
\* none (0) and positive, below and up to a whole second.
Ttls == (0 - TicksPerSecond)..TicksPerSecond

NoClaims == [sub |-> NoSub, typ |-> "", iss |-> "", aud |-> ""]

\* What is known of the token in `presented` right after its creation.
Issued(by, sub, expires_delta) ==
  [by |-> by, subject |-> sub, expires_delta |-> expires_delta,
   created |-> utcnow,
   expected |-> "none", at |-> 0 - 1, result |-> "none", claims |-> NoClaims]

IssueAccess(sub, expires_delta) ==
  /\ loaded = "yes"
  /\ presented' = create_access_token(sub, expires_delta, utcnow)
  /\ outcome' = Issued("create_access_token", sub, expires_delta)
  /\ UNCHANGED <<authVars, taskVars, micro, regVars, bootVars, sweepVars>>

IssueRefresh(sub) ==
  /\ loaded = "yes"
  /\ presented' = create_refresh_token(sub, timegm(utcnow))
  /\ outcome' = Issued("create_refresh_token", sub, timedelta(RefreshTtl))
  /\ UNCHANGED <<authVars, taskVars, micro, regVars, bootVars, sweepVars>>

\* The payload verify_token returns.
Payload(token) ==
  [sub |-> token.sub, typ |-> token.typ, iss |-> token.iss, aud |-> token.aud]

\* verify_token(presented, token_type) at the present clock.
Verify(token_type) ==
  /\ loaded = "yes"
  /\ presented # NoToken
  /\ LET result == verify_token(presented, token_type, timegm(utcnow)) IN
     outcome' = [outcome EXCEPT !.expected = token_type, !.at = utcnow,
                                !.result = result,
                                !.claims = IF result = "ok"
                                             THEN Payload(presented)
                                             ELSE NoClaims]
  /\ UNCHANGED <<authVars, taskVars, presented, micro, regVars, bootVars, sweepVars>>

\* The clock advances by one tick.
TickMicro ==
  /\ utcnow + 1 < timedelta(MaxTime + 1)
  /\ micro' = (micro + 1) % TicksPerSecond
  /\ now' = IF micro + 1 = TicksPerSecond THEN now + 1 ELSE now
  /\ UNCHANGED <<users, settings, ledger, pc, req, rotations, revocations>>
  /\ UNCHANGED <<taskVars, presented, outcome, regVars, bootVars, sweepVars>>

NextCodec ==
  \/ \E sub \in Subjects, expires_delta \in Ttls :
       IssueAccess(sub, expires_delta)
  \/ \E sub \in Subjects : IssueRefresh(sub)
  \/ \E token_type \in {"access", "refresh"} : Verify(token_type)
  \/ TickMicro

SpecCodec == Init /\ [][NextCodec]_vars

\* =============================================================== startup
\* Values of SECRET_KEY a deployment may have: unset, empty, one character
\* short of the minimum, the minimum, and longer.
SecretInputs ==
  {{}} \cup {{Key(n)} : n \in {0, MinSecretLen - 1, MinSecretLen,
                                MinSecretLen + 1}}

\* The process has started; nothing is imported yet.
InitStartup ==
  /\ InitAuthPart /\ InitTaskPart /\ InitVerifyPart /\ InitRegPart
  /\ InitSweepPart
  /\ environ \in SecretInputs
  /\ loaded = "no"

\* The application module is imported: security.py imports SECRET_KEY from
\* config.py, whose RuntimeError ends the process.
Startup ==
  /\ loaded = "no"
  /\ loaded' = IF load_config(environ) = "ok" THEN "yes" ELSE "aborted"
  /\ UNCHANGED <<authVars, taskVars, verifyVars, regVars, environ, sweepVars>>

NextStartup ==
  \/ Startup
  \/ \E sub \in Subjects, expires_delta \in Ttls :
       IssueAccess(sub, expires_delta)
  \/ \E sub \in Subjects : IssueRefresh(sub)
  \/ \E token_type \in {"access", "refresh"} : Verify(token_type)
  \/ TickMicro

SpecStartup == InitStartup /\ [][NextStartup]_vars

\* ============================ cleanup_expired_tokens beside another call
\* One ledger operation runs statement by statement on its own Session
\* while one call of cleanup_expired_tokens runs on another. Statements of
\* the two Sessions interleave; each sees what was committed before it
\* (READ COMMITTED, the default of the database).
Quiet == job.pc = "idle" /\ sweep.pc = "idle"

\* Both calls arrive.
StartBoth(op, token, username, password, user_id) ==
  /\ Quiet
  /\ job' = [IdleJob EXCEPT !.op = op, !.pc = "start", !.token = token,
                            !.username = username, !.password = password,
                            !.user_id = user_id, !.began = ledger]
  /\ sweep' = [IdleSweep EXCEPT !.pc = "pending"]
  /\ UNCHANGED <<authVars, taskVars, verifyVars, regVars, bootVars>>

\* The flush of a Session sends `UPDATE refresh_tokens ... WHERE id = :id`
\* for each row object it holds changed; SQLAlchemy raises StaleDataError
\* when that UPDATE matches no row.
StaleDataError(rows, found) ==
  \E r \in found : \A x \in rows : x.token_hash # r.token_hash

\* cleanup_expired_tokens: one DELETE and its commit.
Sweep ==
  /\ sweep.pc = "pending"
  /\ ledger' = cleanup_expired_tokens(ledger, now)
  /\ sweep' = [pc |-> "done", at |-> now,
               count |-> cleanup_expired_tokens_count(ledger, now),
               removed |-> ledger \ cleanup_expired_tokens(ledger, now)]
  /\ UNCHANGED <<users, settings, now, pc, req, rotations, revocations>>
  /\ UNCHANGED <<taskVars, verifyVars, regVars, bootVars, job>>

\* revoke_token, first statement: the SELECT of find_token.
RevokeTokenFind ==
  /\ job.op = "revoke_token" /\ job.pc = "start"
  /\ job' = IF find_token(ledger, job.token) = {}
              THEN [job EXCEPT !.pc = "done", !.result = "False",
                               !.t_read = now, !.t_write = now]
            ELSE [job EXCEPT !.pc = "commit", !.t_read = now,
                             !.found = find_token(ledger, job.token)]
  /\ UNCHANGED <<authVars, taskVars, verifyVars, regVars, bootVars, sweep>>

\* revoke_token, `refresh_token.revoked = True; db.commit()`. A row that is
\* revoked already is not changed by the assignment and no UPDATE is sent.
RevokeTokenCommit ==
  /\ job.op = "revoke_token" /\ job.pc = "commit"
  /\ LET changed == {r \in job.found : ~r.revoked} IN
     IF StaleDataError(ledger, changed)
       THEN /\ job' = [job EXCEPT !.pc = "done", !.t_write = now,
                                  !.result = "StaleDataError"]
            /\ UNCHANGED ledger
     ELSE /\ job' = [job EXCEPT !.pc = "done", !.t_write = now,
                                !.result = "True"]
          /\ ledger' = revoke_token(ledger, job.token)
  /\ UNCHANGED <<users, settings, now, pc, req, rotations, revocations>>
  /\ UNCHANGED <<taskVars, verifyVars, regVars, bootVars, sweep>>

\* revoke_all_user_tokens: one UPDATE and its commit.
RevokeAllUpdate ==
  /\ job.op = "revoke_all_user_tokens" /\ job.pc = "start"
  /\ ledger' = revoke_all_user_tokens(ledger, job.user_id)
  /\ job' = [job EXCEPT !.pc = "done", !.t_read = now, !.t_write = now,
                        !.result = "count",
                        !.count = revoke_all_user_tokens_count(ledger, job.user_id)]
  /\ UNCHANGED <<users, settings, now, pc, req, rotations, revocations>>
  /\ UNCHANGED <<taskVars, verifyVars, regVars, bootVars, sweep>>

\* What the caller of authenticate_user is told when steps 1-3 refuse.
login_refusal(username, password) ==
  LET found == get_user_by_username(users, username) IN
  IF found = {} THEN "Incorrect username or password"
  ELSE IF ~verify_password(password, (CHOOSE u \in found : TRUE).hashed_password)
    THEN "Incorrect username or password"
  ELSE ""

\* authenticate_user, steps 1-4: the principal, the password, the tokens.
LoginIssue ==
  /\ job.op = "authenticate_user" /\ job.pc = "start"
  /\ job' =
       IF login_refusal(job.username, job.password) # ""
         THEN [job EXCEPT !.pc = "done", !.t_read = now, !.t_write = now,
                          !.result = login_refusal(job.username, job.password)]
       ELSE [job EXCEPT
               !.pc = "insert", !.t_read = now,
               !.user_id =
                 (CHOOSE u \in get_user_by_username(users, job.username) : TRUE).id,
               !.new_token = create_refresh_token(job.username, now)]
  /\ UNCHANGED <<authVars, taskVars, verifyVars, regVars, bootVars, sweep>>

\* authenticate_user, step 5: create_token, its INSERT and commit.
LoginInsert ==
  /\ job.op = "authenticate_user" /\ job.pc = "insert"
  /\ IF UniqueViolation(ledger, job.new_token)
       THEN /\ job' = [job EXCEPT !.pc = "done", !.t_write = now,
                         !.result = "An unexpected error occurred. Please try again later."]
            /\ UNCHANGED ledger
     ELSE /\ Cardinality(ledger) < MaxRecords
          /\ job' = [job EXCEPT !.pc = "done", !.t_write = now,
                                !.result = "bearer"]
          /\ ledger' = create_token(ledger, job.new_token, job.user_id, now)
  /\ UNCHANGED <<users, settings, now, pc, req, rotations, revocations>>
  /\ UNCHANGED <<taskVars, verifyVars, regVars, bootVars, sweep>>

\* What the caller of POST /auth/refresh is told when steps 1-4 refuse.
refresh_refusal(rows, token, t) ==
  IF token = NoToken THEN "Refresh token not provided"
  ELSE IF ~is_token_valid(rows, token, t) THEN "Invalid or revoked refresh token"
  ELSE IF verify_token(token, "refresh", t) # "ok"
    THEN "Invalid or expired refresh token"
  ELSE IF token.sub = NoSub THEN "Invalid refresh token"
  ELSE IF get_user_by_username(users, token.sub) = {} THEN "User not found"
  ELSE ""

\* POST /auth/refresh, steps 1-6: the SELECT of is_token_valid, the JWT, the
\* principal, the new pair.
RefreshAdmit ==
  /\ job.op = "refresh_access_token" /\ job.pc = "start"
  /\ job' =
       IF refresh_refusal(ledger, job.token, now) # ""
         THEN [job EXCEPT !.pc = "done", !.t_read = now, !.t_write = now,
                          !.result = refresh_refusal(ledger, job.token, now)]
       ELSE [job EXCEPT
               !.pc = "find", !.t_read = now,
               !.username = job.token.sub,
               !.user_id =
                 (CHOOSE u \in get_user_by_username(users, job.token.sub) : TRUE).id,
               !.new_token = create_refresh_token(job.token.sub, now)]
  /\ UNCHANGED <<authVars, taskVars, verifyVars, regVars, bootVars, sweep>>

\* rotate_token, first statement: the SELECT of find_token.
RotateFind ==
  /\ job.op = "refresh_access_token" /\ job.pc = "find"
  /\ job' = [job EXCEPT !.pc = "commit",
                        !.found = find_token(ledger, job.token)]
  /\ UNCHANGED <<authVars, taskVars, verifyVars, regVars, bootVars, sweep>>

\* rotate_token, the assignments on the row it found and the commit inside
\* create_token: the flush sends the UPDATE, then the INSERT. Either
\* exception reaches the handler's `except Exception`.
RotateCommit ==
  /\ job.op = "refresh_access_token" /\ job.pc = "commit"
  /\ LET updated == IF job.found = {} THEN ledger
                    ELSE rotate_old(ledger, job.token, job.new_token) IN
     IF StaleDataError(ledger, job.found) \/ UniqueViolation(updated, job.new_token)
       THEN /\ job' = [job EXCEPT !.pc = "done", !.t_write = now,
                                  !.result = "Invalid or expired refresh token"]
            /\ UNCHANGED ledger
     ELSE /\ Cardinality(ledger) < MaxRecords
          /\ job' = [job EXCEPT !.pc = "done", !.t_write = now,
                                !.result = "bearer"]
          /\ ledger' = create_token(updated, job.new_token, job.user_id, now)
  /\ UNCHANGED <<users, settings, now, pc, req, rotations, revocations>>
  /\ UNCHANGED <<taskVars, verifyVars, regVars, bootVars, sweep>>

\* The clock advances while the two calls run.
SweepTick ==
  /\ ~Quiet
  /\ Tick

NextSweep ==
  \/ Quiet /\ \E u \in LedgerSubjects, pw \in Passwords : register_user(u, pw)
  \/ Quiet /\ \E u \in LedgerSubjects, d \in 0..1 :
       authenticate_user(u, PwGood, d)
  \/ Quiet /\ \E t \in Presentable : RevokeToken(t)
  \/ Quiet /\ Tick
  \/ \E u \in LedgerSubjects \cup {Unknown}, pw \in Passwords :
       StartBoth("authenticate_user", NoToken, u, pw, NoUserId)
  \/ \E t \in Presentable :
       StartBoth("refresh_access_token", t, NoSub, <<>>, NoUserId)
  \/ \E t \in Presentable :
       StartBoth("revoke_token", t, NoSub, <<>>, NoUserId)
  \/ \E u \in users :
       StartBoth("revoke_all_user_tokens", NoToken, NoSub, <<>>, u.id)
  \/ Sweep
  \/ RevokeTokenFind
  \/ RevokeTokenCommit
  \/ RevokeAllUpdate
  \/ LoginIssue
  \/ LoginInsert
  \/ RefreshAdmit
  \/ RotateFind
  \/ RotateCommit
  \/ SweepTick

SpecSweep == Init /\ [][NextSweep]_vars

\* The same operation run alone, from its first statement to its commit, on
\* the rows it is given, with the clock values the call j read.
job_alone(rows, j) ==
  CASE j.op = "revoke_token" ->
         [rows |-> revoke_token(rows, j.token),
          result |-> IF revoke_token_result(rows, j.token) THEN "True" ELSE "False",
          count |-> 0]
    [] j.op = "revoke_all_user_tokens" ->
         [rows |-> revoke_all_user_tokens(rows, j.user_id),
          result |-> "count",
          count |-> revoke_all_user_tokens_count(rows, j.user_id)]
    [] j.op = "authenticate_user" ->
         IF login_refusal(j.username, j.password) # ""
           THEN [rows |-> rows, count |-> 0,
                 result |-> login_refusal(j.username, j.password)]
         ELSE IF UniqueViolation(rows, create_refresh_token(j.username, j.t_read))
           THEN [rows |-> rows, count |-> 0,
                 result |-> "An unexpected error occurred. Please try again later."]
         ELSE [rows |-> create_token(rows, create_refresh_token(j.username, j.t_read),
                                     j.user_id, j.t_write),
               result |-> "bearer", count |-> 0]
    [] OTHER ->
         IF refresh_refusal(rows, j.token, j.t_read) # ""
           THEN [rows |-> rows, count |-> 0,
                 result |-> refresh_refusal(rows, j.token, j.t_read)]
         ELSE [rows |-> rotate_token_committed(
                          rows, j.token, create_refresh_token(j.token.sub, j.t_read),
                          (CHOOSE u \in get_user_by_username(users, j.token.sub) : TRUE).id,
                          j.t_write),
               result |-> IF UniqueViolation(
                               rotate_old(rows, j.token,
                                          create_refresh_token(j.token.sub, j.t_read)),
                               create_refresh_token(j.token.sub, j.t_read))
                            THEN "Invalid or expired refresh token"
                          ELSE "bearer",
               count |-> 0]

\* What the two calls left and returned.
Observed ==
  [ledger |-> ledger, result |-> job.result, count |-> job.count,
   swept |-> sweep.count]

\* The operation first, then the sweep.
JobThenSweep ==
  LET a == job_alone(job.began, job) IN
  [ledger |-> cleanup_expired_tokens(a.rows, sweep.at), result |-> a.result,
   count |-> a.count, swept |-> cleanup_expired_tokens_count(a.rows, sweep.at)]

\* The sweep first, then the operation.
SweepThenJob ==
  LET b == job_alone(cleanup_expired_tokens(job.began, sweep.at), job) IN
  [ledger |-> b.rows, result |-> b.result, count |-> b.count,
   swept |-> cleanup_expired_tokens_count(job.began, sweep.at)]

\* ==================================== protected routes beside the ledger
\* Access tokens login and refresh can have issued to the registered
\* principal within the clock range.
AccessInputs ==
  {create_access_token(s, timedelta(AccessTtl), dt) :
     s \in LedgerSubjects, dt \in 0..(MaxTime * TicksPerSecond)}

\* Login, one refresh request at a time, the ledger operations and the
\* clock, with protected routes being called in between.
NextSession ==
  \/ \E u \in LedgerSubjects : register_user(u, PwGood)
  \/ \E u \in LedgerSubjects, d \in 0..1 : authenticate_user(u, PwGood, d)
  \/ \E t \in Presentable : RefreshCheck("r1", t)
  \/ RefreshVerify("r1")
  \/ RefreshLookup("r1")
  \/ RefreshIssue("r1")
  \/ RefreshRotate("r1")
  \/ \E t \in Presentable : RevokeToken(t)
  \/ \E u \in users : RevokeAllUserTokens(u.id)
  \/ CleanupExpiredTokens
  \/ Tick
  \/ \E token \in AccessInputs : Authorize(token)

SpecSession == Init /\ [][NextSession]_vars

\* ============================================ the ledger of two principals
\* Both principals register, log in and refresh, one refresh request at a
\* time, while records expire and are swept.
NextOwners ==
  \/ \E u \in Subjects : register_user(u, PwGood)
  \/ \E u \in Subjects, d \in 0..1 : authenticate_user(u, PwGood, d)
  \/ \E t \in Presentable : RefreshCheck("r1", t)
  \/ RefreshVerify("r1")
  \/ RefreshLookup("r1")
  \/ RefreshIssue("r1")
  \/ RefreshRotate("r1")
  \/ CleanupExpiredTokens
  \/ Tick

SpecOwners == Init /\ [][NextOwners]_vars

\* ================================================================ claims

\* C1 (single-use rotation): of all the refresh calls that present the same
\* refresh token, at most one ever returns 200; the history `rotations`
\* holds one [old, new] pair per successful call, so no two of its pairs
\* share the presented token.
C1_SingleUseRotation ==
  \A r1, r2 \in rotations : r1.old = r2.old => r1 = r2

\* C2 (revocation against concurrent rotation): a refresh whose presented
\* token was revoked by revoke_token or revoke_all_user_tokens before the
\* refresh commits its rotation does not return 200 and leaves the ledger
\* as it was, so no new valid row appears for the owner.
C2_RevokedNeverRotates ==
  [][\A p \in Procs :
       (RefreshRotate(p) /\ hash_token(req[p].token) \in revocations)
       => (refresh_rotate_response(p).status # 200 /\ ledger' = ledger)]_vars

\* C5 (generic login failure): a login that fails because the subject is
\* unknown and a login that fails because the password is wrong return the
\* same status, message and (empty) tokens, and the ledger that
\* authenticate_user commits is the ledger it found; authenticate_user never
\* writes users or settings.
C5_GenericLoginFailure ==
  \A u1, u2 \in Subjects \cup {Unknown}, p1, p2 \in Passwords, d \in 0..1 :
    LET a == login_response(u1, p1)
        b == login_response(u2, p2)
    IN (/\ a.cause \in {"unknown_user", "wrong_password"}
        /\ b.cause \in {"unknown_user", "wrong_password"})
       => /\ Body(a) = Body(b)
          /\ a.status = 401
          /\ login_ledger(u1, p1, d) = ledger

\* Both failing cases are available: a registered subject with a ledger row,
\* a wrong password for it, and an unknown subject.
C5_Witness ==
  /\ ledger # {}
  /\ \E u \in users :
        login_response(u.name_user, PwShort).cause = "wrong_password"
  /\ login_response(Unknown, PwGood).cause = "unknown_user"

\* The 401 responses /auth/refresh can give in the current state to a token
\* that was presented: at the ledger check for any presentable token, and
\* at the later steps for the requests in flight.
RefreshFailures ==
  {r \in {refresh_check_response(t) : t \in Presentable}
          \cup {refresh_verify_response(p) : p \in {q \in Procs : pc[q] = "verify"}}
          \cup {refresh_lookup_response(p) : p \in {q \in Procs : pc[q] = "lookup"}}
          \cup {refresh_rotate_response(p) : p \in {q \in Procs : pc[q] = "rotate"}}
     : r.status = 401}

\* C6 (undifferentiated refresh failures): whatever makes /auth/refresh
\* reject a presented token, the caller receives the same status and the
\* same message.
C6_UniformRefreshFailure ==
  \A a, b \in RefreshFailures : Body(a) = Body(b)

\* C7 (revocation is terminal): a token whose row revoke_token (or
\* revoke_all_user_tokens) has flagged is not valid at any later point,
\* whatever logins, refreshes, revocations, clean-ups and clock advances
\* follow, and whether or not its expires_at has passed.
C7_RevocationTerminal ==
  \A t \in Presentable :
    hash_token(t) \in revocations => ~is_token_valid(ledger, t, now)

\* A revoked token whose row is still in the ledger and not yet expired.
C7_Witness ==
  \E t \in Presentable :
    /\ hash_token(t) \in revocations
    /\ \E r \in find_token(ledger, t) : ~(r.expires_at < now)

\* C8 (refresh postcondition): when /auth/refresh returns 200 with the pair
\* (access, new) for the presented token old, then in the committed state
\* old is not valid, new is valid, the row of old is revoked and points at
\* hash(new), and new differs from old.
C8_RefreshPostcondition ==
  [][\A p \in Procs :
       (RefreshRotate(p) /\ refresh_rotate_response(p).status = 200)
       => LET old == req[p].token
              new == refresh_rotate_response(p).refresh_token
          IN /\ ~is_token_valid(ledger', old, now')
             /\ is_token_valid(ledger', new, now')
             /\ \E r \in find_token(ledger', old) :
                   /\ r.revoked
                   /\ r.replaced_by_token_hash = {hash_token(new)}
             /\ new # old]_vars

\* C9 (login postcondition): a login that returns 200 returns an access and
\* a refresh token that both carry sub = subject, and the ledger it commits
\* holds a row for the returned refresh token that is not revoked, not
\* expired and owned by the authenticated user; a login that fails commits
\* the ledger it found.
C9_LoginPostcondition ==
  \A u \in Subjects \cup {Unknown}, pw \in Passwords, d \in 0..1 :
    LET response == login_response(u, pw)
        after == login_ledger(u, pw, d)
    IN IF response.status = 200
         THEN /\ response.access_token.sub = u
              /\ response.access_token.typ = "access"
              /\ response.refresh_token.sub = u
              /\ response.refresh_token.typ = "refresh"
              /\ is_token_valid(after, response.refresh_token, now + d)
              /\ \E r \in find_token(after, response.refresh_token) :
                    /\ ~r.revoked
                    /\ ~(r.expires_at < now + d)
                    /\ \E x \in get_user_by_username(users, u) : x.id = r.user_id
              /\ Cardinality(after) = Cardinality(ledger) + 1
         ELSE after = ledger

\* The state a successful login leaves: a valid row that no rotation made.
C9_Witness ==
  /\ rotations = {}
  /\ \E r \in ledger : ~r.revoked /\ ~(r.expires_at < now)

\* C3 (tenant isolation): whatever requests the users make and however they
\* interleave, the rows a request of one user is given, updates or deletes
\* all belong to that user, also when the request names the identifier of
\* another user's task.
C3_TenantIsolation ==
  \A p \in TaskProcs :
    sess[p].owners \subseteq get_user_id_by_username(users, sess[p].username)

\* A request has asked for, or tried to update or delete, an existing task
\* of another user by its identifier and was answered 404.
C3_Witness ==
  \E p \in TaskProcs, t \in tasks :
    /\ sess[p].op \in {"get", "update", "delete"}
    /\ sess[p].task_id = t.id
    /\ t.tenant_id \notin get_user_id_by_username(users, sess[p].username)
    /\ sess[p].status = 404

\* C4 (binding before every tenant-scoped statement): every statement a
\* task operation called with username u sends to table tasks runs with
\* role authenticated and sub = u set by the listener on its connection and
\* transaction, including the INSERT that follows the tenant-id lookup and
\* the re-read that follows the commit.
C4_BoundBeforeEveryStatement ==
  \A p \in TaskProcs :
    sess[p].statement # NoStatement
    => /\ sess[p].statement.role = "authenticated"
       /\ sess[p].statement.sub = sess[p].username

\* The re-read after a commit has run.
C4_Witness ==
  \E p \in TaskProcs : sess[p].statement.name = "refresh"

\* C10 (get_current_user): a token that is signed with the secret key, is
\* inside its nbf..exp window, names the expected issuer and audience, is
\* of type access and carries a sub yields exactly that sub; a token that
\* fails any one of these yields the one generic 401 and no subject.
C10_SubjectIffVerified ==
  [][\A token \in TokenInputs :
       Authorize(token)
       => IF /\ token.sig = SECRET_KEY
             /\ token.nbf <= now /\ now <= token.exp
             /\ token.iss = JWT_ISSUER /\ token.aud = JWT_AUDIENCE
             /\ token.typ = "access"
             /\ token.sub # NoSub
            THEN outcome' = [status |-> 200, detail |-> "",
                             username |-> token.sub]
            ELSE outcome' = CredentialsException]_vars

\* A refresh token that is otherwise in order has been handed to a
\* protected route and was refused.
C10_Witness ==
  /\ verify_token(presented, "refresh", now) = "ok"
  /\ presented.sub # NoSub
  /\ outcome = CredentialsException

\* C11 (type confusion): a token made by create_refresh_token never passes
\* verify_token as an access token and a token made by create_access_token
\* never passes it as a refresh token; while the token is unexpired (so that
\* signature, validity window, issuer and audience are all fine) the failure
\* is the JWTError of the type comparison. Hence get_current_user answers 401
\* to every refresh token, and the verification step of /auth/refresh
\* (verify_token(..., "refresh")) rejects every access token.
C11_TypeConfusionRejected ==
  presented # NoToken =>
    LET other == IF outcome.by = "create_refresh_token" THEN "access"
                 ELSE "refresh" IN
    /\ (outcome.result # "none" /\ outcome.expected = other) =>
          /\ outcome.result # "ok"
          /\ outcome.claims = NoClaims
          /\ (presented.exp >= timegm(outcome.at)) =>
                outcome.result = "JWTError"
    /\ verify_token(presented, other, timegm(utcnow)) # "ok"
    /\ (outcome.by = "create_refresh_token") =>
          get_current_user(presented, timegm(utcnow)) = CredentialsException

\* An unexpired refresh token was verified as an access token and failed on
\* its type alone.
C11_Witness ==
  /\ presented # NoToken
  /\ outcome.by = "create_refresh_token"
  /\ outcome.expected = "access"
  /\ presented.exp >= timegm(outcome.at)
  /\ verify_token(presented, "refresh", timegm(outcome.at)) = "ok"
  /\ outcome.result = "JWTError"

\* The claims the round trip of an access token for `subject` must yield.
RoundTripClaims(subject) ==
  [sub |-> subject, typ |-> "access", iss |-> JWT_ISSUER,
   aud |-> JWT_AUDIENCE]

\* C12 as stated (round trip for any TTL): whatever the subject and the TTL,
\* the token of create_access_token(subject, ttl), verified as an access
\* token at the instant of its creation, is accepted and yields sub =
\* subject, type = access and the configured iss and aud.
C12_RoundTripAnyTtl ==
  (/\ presented # NoToken
   /\ outcome.by = "create_access_token"
   /\ outcome.expected = "access"
   /\ outcome.at = outcome.created) =>
    /\ outcome.result = "ok"
    /\ outcome.claims = RoundTripClaims(outcome.subject)

\* C12 (round trip, amended): the same for every TTL that is not negative,
\* an absent or zero TTL standing for the configured lifetime.
C12_RoundTrip ==
  (/\ presented # NoToken
   /\ outcome.by = "create_access_token"
   /\ outcome.expected = "access"
   /\ outcome.expires_delta >= 0
   /\ outcome.at = outcome.created) =>
    /\ outcome.result = "ok"
    /\ outcome.claims = RoundTripClaims(outcome.subject)

\* A token with a TTL below one second went through the round trip.
C12_Witness ==
  /\ presented # NoToken
  /\ outcome.by = "create_access_token"
  /\ outcome.subject = "bob"
  /\ outcome.expires_delta > 0
  /\ outcome.expires_delta < TicksPerSecond
  /\ outcome.expected = "access"
  /\ outcome.at = outcome.created
  /\ outcome.claims.sub = "bob"

\* C13 as stated (expiry): a token created with a negative TTL, and any
\* token verified at an instant after its exp, fails verify_token with the
\* expiry error whichever type is expected; no token is accepted after its
\* exp.
C13_ExpiryAtAnyInstant ==
  (/\ presented # NoToken
   /\ outcome.result # "none"
   /\ \/ outcome.expires_delta < 0
      \/ outcome.at > timedelta(presented.exp)) =>
    /\ outcome.result = "ExpiredSignatureError"
    /\ outcome.claims = NoClaims

\* C13 (expiry, amended to the whole seconds a JWT keeps): a token created
\* with a TTL of minus one second or less, and any token verified when the
\* whole second of the clock is later than its exp, fails verify_token with
\* the expiry error whichever type is expected; no token is accepted once
\* the whole second of the clock is later than its exp.
C13_Expiry ==
  (/\ presented # NoToken
   /\ outcome.result # "none"
   /\ \/ outcome.expires_delta <= 0 - TicksPerSecond
      \/ timegm(outcome.at) > presented.exp) =>
    /\ outcome.result = "ExpiredSignatureError"
    /\ outcome.claims = NoClaims

\* A token born expired was refused as a refresh token, with the expiry
\* error rather than the error of its type.
C13_Witness ==
  /\ presented # NoToken
  /\ outcome.by = "create_access_token"
  /\ outcome.expires_delta <= 0 - TicksPerSecond
  /\ outcome.expected = "refresh"
  /\ outcome.at = outcome.created
  /\ outcome.result = "ExpiredSignatureError"

\* C14 (duplicate subject): no two principals ever share a subject, and of
\* the register calls for one subject, concurrent ones included, at most one
\* holds the identifier of a principal; a call whose INSERT finds the
\* subject taken ends with 400 "Username already exists..." and leaves the
\* principals as they were, and a call that finds it free adds exactly one
\* principal of that subject.
C14_DuplicateSubjectRejected ==
  /\ [](/\ \A u1, u2 \in users : u1.name_user = u2.name_user => u1 = u2
        /\ \A p, q \in RegProcs :
             (/\ p # q
              /\ reg[p].user_id # NoUserId
              /\ reg[q].user_id # NoUserId) =>
               reg[p].name_user # reg[q].name_user)
  /\ [][\A p \in RegProcs :
         (reg[p].pc = "create_user" /\ reg'[p].pc # "create_user") =>
           IF \E u \in users : u.name_user = reg[p].name_user
             THEN /\ users' = users
                  /\ reg'[p].pc = "done"
                  /\ reg'[p].status = 400
                  /\ reg'[p].detail =
                       "Username already exists. Please choose a different username."
                  /\ reg'[p].user_id = NoUserId
             ELSE \E u \in users' \ users :
                    /\ users' = users \cup {u}
                    /\ u.name_user = reg[p].name_user
                    /\ reg'[p].user_id = u.id
                    /\ reg'[p].status = 0]_vars

\* Two register calls for the same subject arrived while there was no
\* principal; one was refused as a duplicate, the other holds the
\* principal.
C14_Witness ==
  /\ reg["g1"].began = 0
  /\ reg["g2"].began = 0
  /\ reg["g1"].name_user = reg["g2"].name_user
  /\ reg["g1"].status = 400
  /\ reg["g2"].user_id # NoUserId
  /\ Cardinality(users) = 1

\* C15 (password policy): a password is accepted iff it has at least 8
\* characters and holds an upper-case letter, a lower-case letter, a digit
\* and a symbol of the punctuation set; a rejected one is answered with 422
\* and the reason of the first rule it breaks, in the order length,
\* upper-case, lower-case, digit, symbol, with nothing hashed and no
\* principal created; every stored hash is that of an accepted password.
C15_PasswordPolicy ==
  LET long(pw) == Len(pw) >= 8
      upper(pw) == \E i \in DOMAIN pw : pw[i] \in UpperCase
      lower(pw) == \E i \in DOMAIN pw : pw[i] \in LowerCase
      digit(pw) == \E i \in DOMAIN pw : pw[i] \in Digits
      symbol(pw) == \E i \in DOMAIN pw : pw[i] \in Specials
      accepted(pw) ==
        long(pw) /\ upper(pw) /\ lower(pw) /\ digit(pw) /\ symbol(pw)
      rejected(r, reason) ==
        /\ r.pc = "done"
        /\ r.status = 422
        /\ r.detail = reason
        /\ r.hashed_password = {}
        /\ r.user_id = NoUserId
  IN
  /\ \A p \in RegProcs :
       reg[p].pc # "idle" =>
         LET pw == reg[p].password IN
         /\ accepted(pw) <=> reg[p].status # 422
         /\ accepted(pw) => reg[p].hashed_password = {hash_password(pw)}
         /\ ~long(pw) =>
              rejected(reg[p], "La password deve contenere almeno 8 caratteri")
         /\ (long(pw) /\ ~upper(pw)) =>
              rejected(reg[p],
                "La password deve contenere almeno una lettera maiuscola")
         /\ (long(pw) /\ upper(pw) /\ ~lower(pw)) =>
              rejected(reg[p],
                "La password deve contenere almeno una lettera minuscola")
         /\ (long(pw) /\ upper(pw) /\ lower(pw) /\ ~digit(pw)) =>
              rejected(reg[p], "La password deve contenere almeno un numero")
         /\ (long(pw) /\ upper(pw) /\ lower(pw) /\ digit(pw)
               /\ ~symbol(pw)) =>
              rejected(reg[p],
                "La password deve contenere almeno un carattere speciale (!@#$%^&*()_+-=[]{}|;:,.<>?)")
  /\ \A u \in users : accepted(u.hashed_password.bcrypt)

\* A long password with neither an upper-case letter nor a digit was
\* refused for the upper-case rule, while the other slot registered a
\* principal with a password of exactly 8 characters.
C15_Witness ==
  /\ reg["g1"].password = Fill(8) \o <<"b", "!">>
  /\ reg["g1"].status = 422
  /\ reg["g1"].detail =
       "La password deve contenere almeno una lettera maiuscola"
  /\ reg["g2"].password = Fill(4) \o ClassChars
  /\ reg["g2"].user_id # NoUserId

\* C16 (fail-fast on the signing secret): when SECRET_KEY is unset, empty
\* or shorter than 32 characters the import never completes, startup ends
\* aborted, and no token has been created or verified.
C16_FailFastOnSecret ==
  (environ = {} \/ \E k \in environ : Len(k) < 32) =>
    /\ loaded \in {"no", "aborted"}
    /\ presented = NoToken
    /\ outcome = NoOutcome

\* Startup has aborted on a secret one character short of the minimum.
C16_Witness ==
  /\ environ = {Key(31)}
  /\ loaded = "aborted"

\* C17 (cleanup): whatever the ledger and the clock, cleanup_expired_tokens
\* removes every record whose expires_at is in the past, revoked or not,
\* keeps every other record as it is, adds none, and returns the number of
\* records it removed; and no step of the system removes a record whose
\* expires_at is not in the past.
C17_CleanupRemovesExpiredOnly ==
  /\ [](LET after == cleanup_expired_tokens(ledger, now) IN
        /\ \A r \in ledger : r.expires_at < now => r \notin after
        /\ \A r \in ledger : r.expires_at >= now => r \in after
        /\ after \subseteq ledger
        /\ cleanup_expired_tokens_count(ledger, now)
             = Cardinality(ledger) - Cardinality(after))
  /\ [][LET gone == {r \in ledger :
                       \A r2 \in ledger' : r2.token_hash # r.token_hash}
        IN /\ \A r \in gone : r.expires_at < now
           /\ gone # {} => ledger' = cleanup_expired_tokens(ledger, now)
       ]_vars

\* The record of a revoked token has been swept after its expiry, while a
\* record that is revoked but not yet expired is still there.
C17_Witness ==
  /\ \E h \in revocations : \A r \in ledger : r.token_hash # h
  /\ \E r \in ledger : r.revoked /\ r.expires_at >= now

\* C18 (idempotent revocation): in every ledger, revoke_token on a record
\* that is already revoked returns True and leaves the ledger exactly as it
\* is (replaced_by_token_hash included); on a token without a record it
\* returns False and changes nothing; applied twice it gives what it gives
\* applied once; revoke_all_user_tokens applied twice gives what it gives
\* applied once, and the second call returns 0.
C18_RevocationIdempotent ==
  /\ \A token \in Presentable :
       LET once == revoke_token(ledger, token) IN
       /\ (\E r \in find_token(ledger, token) : r.revoked) =>
            /\ revoke_token_result(ledger, token)
            /\ once = ledger
       /\ find_token(ledger, token) = {} =>
            /\ ~revoke_token_result(ledger, token)
            /\ once = ledger
       /\ revoke_token(once, token) = once
       /\ \A r \in find_token(once, token) : r.revoked
  /\ \A user_id \in {u.id : u \in users} \cup {NoUserId} :
       LET once == revoke_all_user_tokens(ledger, user_id) IN
       /\ revoke_all_user_tokens(once, user_id) = once
       /\ revoke_all_user_tokens_count(once, user_id) = 0
       /\ \A r \in once : r.user_id = user_id => r.revoked

\* revoke_token has been applied to a record that a rotation had revoked
\* and linked to its successor, next to a record that is not revoked.
C18_Witness ==
  /\ \E r \in ledger :
       /\ r.revoked
       /\ r.replaced_by_token_hash # {}
       /\ r.token_hash \in revocations
  /\ \E r \in ledger : ~r.revoked

\* C19 (rotation is one unit): in every committed ledger, a record that is
\* revoked and linked to a successor has that successor's record beside it,
\* and a record that carries a link is revoked; and every run of
\* rotate_token, completed, failed or cut short, either leaves the ledger
\* as it was or has both inserted the record of the new token and left the
\* old record, if there was one, revoked and linked to it, all other
\* records being untouched.
C19_RotationSingleUnit ==
  /\ [](\A r \in ledger :
          r.replaced_by_token_hash # {} =>
            /\ r.revoked
            /\ \E r2 \in ledger : {r2.token_hash} = r.replaced_by_token_hash)
  /\ [][\A p \in Procs :
         (pc[p] = "rotate" /\ pc'[p] = "idle") =>
           LET old == hash_token(req[p].token)
               new == hash_token(req[p].new_refresh_token)
           IN \/ ledger' = ledger
              \/ /\ \E n \in ledger' \ ledger :
                       n.token_hash = new /\ ~n.revoked
                 /\ \A r \in ledger :
                       IF r.token_hash = old
                         THEN [r EXCEPT !.revoked = TRUE,
                                        !.replaced_by_token_hash = {new}]
                                \in ledger'
                         ELSE r \in ledger'
                 /\ Cardinality(ledger') = Cardinality(ledger) + 1]_vars

\* A rotation has committed: the old record is revoked and linked to the
\* record of the new token, which is there and not revoked.
C19_Witness ==
  \E r \in ledger :
    /\ r.revoked
    /\ r.replaced_by_token_hash # {}
    /\ \E r2 \in ledger :
         /\ {r2.token_hash} = r.replaced_by_token_hash
         /\ ~r2.revoked
    /\ \E x \in rotations : hash_token(x.old) = r.token_hash

\* C20 (state machine of a refresh token): a record's revoked flag never
\* goes from true back to false; a record changes in no other way than from
\* not revoked to revoked, and only by rotate_token, revoke_token or
\* revoke_all_user_tokens; a token whose record is revoked or expired is not
\* reported valid by is_token_valid after the next step, and a token that
\* revoke_token or revoke_all_user_tokens has once revoked is not reported
\* valid ever again.
C20_TokenStateMachine ==
  /\ [][/\ \A r \in ledger : \A r2 \in ledger' :
             r2.token_hash = r.token_hash =>
               /\ r.revoked => r2.revoked
               /\ r2.user_id = r.user_id
               /\ r2.expires_at = r.expires_at
               /\ r2.revoked # r.revoked =>
                    \/ r.token_hash \in revocations'
                    \/ \E p \in Procs : pc[p] = "rotate" /\ pc'[p] = "idle"
        /\ \A t \in Presentable :
             (\E r \in find_token(ledger, t) :
                r.revoked \/ r.expires_at < now) =>
               ~is_token_valid(ledger', t, now')]_vars
  /\ [](\A t \in Presentable :
          hash_token(t) \in revocations => ~is_token_valid(ledger, t, now))

\* A record that is revoked and expired lies next to an active one.
C20_Witness ==
  /\ \E r \in ledger : r.revoked /\ r.expires_at < now
  /\ \E t \in Presentable : is_token_valid(ledger, t, now)


\* ------------------------------------------------------------------- C21
\* C21: is_token_valid(t) is true iff a record with token_hash = hash(t)
\* exists, is not revoked and has expires_at > now; it is false when
\* expires_at equals now, and an absent record gives false like a revoked or
\* an expired one.
C21_ValidIffUnexpired ==
  \A t \in Presentable :
    is_token_valid(ledger, t, now)
      <=> \E r \in ledger : /\ r.token_hash = hash_token(t)
                            /\ ~r.revoked
                            /\ r.expires_at > now

\* A record that is not revoked reaches the instant expires_at names.
C21_Witness ==
  \E r \in ledger : ~r.revoked /\ r.expires_at = now

\* ------------------------------------------------------------------- C22
\* C22: cleanup_expired_tokens is safe beside any other ledger operation:
\* interleaved at any point with login, refresh, revoke_token or
\* revoke_all_user_tokens it deletes no record still within its validity
\* window, and the ledger and the other operation's outcome are those of
\* one of the two serial orders of the two operations.
C22_SweepSerializable ==
  /\ \A r \in sweep.removed : r.expires_at < sweep.at
  /\ (job.pc = "done" /\ sweep.pc = "done")
       => Observed \in {JobThenSweep, SweepThenJob}

\* The sweep deleted the operation's record between two of its statements.
C22_Witness ==
  /\ job.pc = "done" /\ sweep.pc = "done"
  /\ job.t_read <= sweep.at /\ sweep.at <= job.t_write
  /\ \E r \in sweep.removed : r.token_hash = hash_token(job.token)

\* ------------------------------------------------------------------- C23
\* C23: a binding is never carried over between principals. After an
\* operation that bound subject u and role authenticated on a pooled
\* connection has committed or rolled back, no statement issued later on
\* that connection for another principal runs with u's subject, or with the
\* role u's operation left there, unless the binding was applied again for
\* the new caller.
C23_NoBindingCarriedOver ==
  \A p \in TaskProcs :
    sess[p].statement # NoStatement
    => /\ sess[p].statement.sub \in {NoSub, sess[p].username}
       /\ sess[p].left_by \in {NoSub, sess[p].username}

\* A request ran a statement without a binding of its own on a connection
\* whose role had been set by a committed operation of another principal.
C23_Witness ==
  \E p \in TaskProcs :
    /\ sess[p].statement # NoStatement
    /\ sess[p].statement.sub = NoSub
    /\ sess[p].statement.role = "authenticated"
    /\ sess[p].left_by \notin {NoSub, sess[p].username}

\* ------------------------------------------------------------------- C24
\* C24: in every reachable ledger state token_hash is unique across all
\* records and each record stores hash(token), never the plaintext token;
\* create_token for a token whose hash is already stored fails and leaves
\* the ledger unchanged.
C24_HashUniqueAndOpaque ==
  /\ \A r1, r2 \in ledger : r1.token_hash = r2.token_hash => r1 = r2
  /\ \A r \in ledger :
       /\ \E t \in Presentable : r.token_hash = hash_token(t)
       /\ r.token_hash \notin Presentable
       /\ r.replaced_by_token_hash \subseteq {hash_token(t) : t \in Presentable}
  /\ \A u \in users, d \in 0..1 :
       UniqueViolation(ledger, create_refresh_token(u.name_user, now))
       => /\ login_response(u.name_user, PwGood).status # 200
          /\ login_ledger(u.name_user, PwGood, d) = ledger
  /\ \A p \in Procs :
       (pc[p] = "rotate" /\ UniqueViolation(ledger, req[p].new_refresh_token))
       => /\ refresh_rotate_response(p).status # 200
          /\ rotate_token_committed(ledger, req[p].token,
                                    req[p].new_refresh_token,
                                    req[p].user_id, now) = ledger

\* create_token is about to be given a token whose hash is stored: by a
\* login in the second of an earlier login, and by a rotation.
C24_Witness ==
  /\ \E u \in users :
       UniqueViolation(ledger, create_refresh_token(u.name_user, now))
  /\ \E p \in Procs :
       pc[p] = "rotate" /\ UniqueViolation(ledger, req[p].new_refresh_token)

\* ------------------------------------------------------------------- C25
\* C25: in every reachable ledger state, for each record r with
\* replaced_by_hash set, replaced_by_hash is the token_hash of the record
\* created by the same rotate_token call that set r.revoked to true: the
\* link is written only in the step that flips revoked from false to true,
\* and names the record that step inserts.
C25_LinkFromRevokingRotation ==
  /\ [](\A r \in ledger : r.replaced_by_token_hash # {} => r.revoked)
  /\ [][\A r \in ledger : \A q \in ledger' :
          (/\ q.token_hash = r.token_hash
           /\ q.replaced_by_token_hash # r.replaced_by_token_hash)
          => /\ ~r.revoked /\ q.revoked
             /\ \E n \in ledger' \ ledger :
                  q.replaced_by_token_hash = {n.token_hash}]_vars

\* A record is linked to the record of a later rotation than the call that
\* revoked it.
C25_Witness ==
  \E r \in ledger, x \in rotations, y \in rotations :
    /\ r.token_hash = hash_token(x.old) /\ r.token_hash = hash_token(y.old)
    /\ x.new # y.new
    /\ r.replaced_by_token_hash = {hash_token(y.new)}

\* ------------------------------------------------------------------- C26
\* C26: access-token verification is stateless. What verify_token and
\* get_current_user make of a token at a clock value is the same in all
\* states that differ only in ledger records or principals: an access token
\* is accepted from its nbf until its exp, also after revoke_all_user_tokens
\* for its owner and after its refresh token was rotated or revoked.
C26_VerificationStateless ==
  /\ [](\A token \in AccessInputs :
          get_current_user(token, now) =
            IF token.nbf <= now /\ now <= token.exp
              THEN [status |-> 200, detail |-> "", username |-> token.sub]
            ELSE CredentialsException)
  /\ [][\A token \in AccessInputs :
          Authorize(token)
          => (outcome'.status = 200
                <=> (token.nbf <= now /\ now <= token.exp))]_vars

\* A protected route accepted an access token whose owner's refresh token
\* has been rotated and whose records have then all been revoked, and would
\* accept it again now.
C26_Witness ==
  /\ presented \in AccessInputs
  /\ outcome.status = 200
  /\ get_current_user(presented, now) = outcome
  /\ rotations # {}
  /\ revocations # {}
  /\ ledger # {}
  /\ \A r \in ledger : r.revoked

\* ------------------------------------------------------------------- C27
\* C27: issued refresh tokens are fresh. The refresh token of a successful
\* login or refresh differs from every refresh token issued before, also
\* when two are issued for one subject within one second; hence a login
\* with correct credentials and a refresh of a valid token never fail
\* because of a collision on token_hash.
C27_RefreshTokensFresh ==
  /\ \A u \in users :
       /\ ~UniqueViolation(ledger, create_refresh_token(u.name_user, now))
       /\ login_response(u.name_user, PwGood).cause # "integrity_error"
  /\ \A p \in Procs :
       pc[p] = "rotate"
       => /\ req[p].new_refresh_token # req[p].token
          /\ refresh_rotate_response(p).cause # "integrity_error"

\* A second login of the same principal arrives within the second of the
\* first, and a refresh has issued its new token within the second in which
\* the presented one was issued.
C27_Witness ==
  /\ \E u \in users :
       login_response(u.name_user, PwGood).cause = "integrity_error"
  /\ \E p \in Procs :
       /\ pc[p] = "rotate"
       /\ req[p].new_refresh_token = req[p].token
       /\ refresh_rotate_response(p).cause = "integrity_error"

\* ------------------------------------------------------------------- C28
\* C28: rotation chains are linear. In every reachable ledger state each
\* record created by rotate_token is referenced by the replaced_by_hash of
\* exactly one revoked record, no two records created by rotation share a
\* predecessor, and a replaced_by_hash, once set, is never overwritten.
C28_RotationChainsLinear ==
  /\ [](\A n \in ledger :
          (\E x \in rotations : n.token_hash = hash_token(x.new))
          => Cardinality({r \in ledger :
                            /\ r.revoked
                            /\ r.replaced_by_token_hash = {n.token_hash}}) = 1)
  /\ [](\A x \in rotations, y \in rotations : x.old = y.old => x.new = y.new)
  /\ [][\A r \in ledger : \A q \in ledger' :
          (q.token_hash = r.token_hash /\ r.replaced_by_token_hash # {})
          => q.replaced_by_token_hash = r.replaced_by_token_hash]_vars

\* Two rotations of one token have each left a record, and the link of
\* their common predecessor names the later one.
C28_Witness ==
  \E x \in rotations, y \in rotations, r \in ledger :
    /\ x.old = y.old /\ x.new # y.new
    /\ r.token_hash = hash_token(x.old)
    /\ r.replaced_by_token_hash = {hash_token(y.new)}
    /\ \E n \in ledger : n.token_hash = hash_token(x.new)
    /\ \E n \in ledger : n.token_hash = hash_token(y.new)

\* ------------------------------------------------------------------- C29
\* C29: ownership is preserved by rotation. For every successful refresh
\* the owner of the newly created record is the owner of the record of the
\* presented token, and every ledger record's owner is the principal whose
\* subject is the sub claim of the token it was created for.
C29_OwnershipPreserved ==
  /\ [](\A r \in ledger :
          \E t \in Presentable, u \in users :
            /\ r.token_hash = hash_token(t)
            /\ u.name_user = t.sub
            /\ r.user_id = u.id)
  /\ [][\A p \in Procs :
          (RefreshRotate(p) /\ refresh_rotate_response(p).status = 200)
          => /\ find_token(ledger', req[p].new_refresh_token) # {}
             /\ \A n \in find_token(ledger', req[p].new_refresh_token) :
                  /\ n.user_id = req[p].user_id
                  /\ \A o \in find_token(ledger, req[p].token) :
                       n.user_id = o.user_id]_vars

\* Both principals own records, and a rotation has replaced the record of
\* the principal registered second by a new one of the same owner.
C29_Witness ==
  /\ \A u \in Subjects :
       \E v \in users, r \in ledger : v.name_user = u /\ r.user_id = v.id
  /\ \E x \in rotations, o \in ledger, n \in ledger :
       /\ o.token_hash = hash_token(x.old)
       /\ n.token_hash = hash_token(x.new)
       /\ o.replaced_by_token_hash = {n.token_hash}
       /\ o.user_id = 2 /\ n.user_id = 2

\* ------------------------------------------------------------------- C30
\* C30: register is all-or-nothing. If register(subject, password) returns
\* an error for any reason (weak password, duplicate subject, failure while
\* initialising the default settings), that call has persisted no principal
\* for subject; if it succeeds, the principal exists together with its
\* default settings.
C30_RegisterAllOrNothing ==
  \A p \in RegProcs :
    reg[p].pc = "done"
    => IF reg[p].status = 201
         THEN /\ \E u \in users : /\ u.id = reg[p].user_id
                                  /\ u.name_user = reg[p].name_user
              /\ reg[p].user_id \in settings
       ELSE \A u \in users : u.id # reg[p].user_id

\* A registration was answered 500 after its principal had been stored,
\* and the principal has no settings.
C30_Witness ==
  \E p \in RegProcs, u \in users :
    /\ reg[p].pc = "done" /\ reg[p].status = 500
    /\ u.id = reg[p].user_id /\ u.name_user = reg[p].name_user
    /\ u.id \notin settings
====
